---- MODULE Spec2Model ----
(***************************************************************************)
(* Model of the admission-list analyser: the identity normaliser           *)
(* (models.rs), the record deduplicator (main.rs) and the admission        *)
(* analyser (analyzer.rs) and the cutoff analysis (main.rs).               *)
(*                                                                         *)
(* Strings that the code inspects character by character (SNILS            *)
(* identifiers) are sequences of characters; a character is a short        *)
(* string naming one Unicode scalar value:                                 *)
(*   "1" "2" "3"  digits          "a" "b"  lower-case letters              *)
(*   "A" "B" "J"  upper-case letters                                       *)
(*   "-" " "      punctuation                                              *)
(*   "jc"         U+01F0 LATIN SMALL LETTER J WITH CARON, whose upper-case *)
(*                form is the two characters U+004A U+030C                 *)
(*   "c"          U+030C COMBINING CARON (a mark: not alphanumeric)        *)
(***************************************************************************)
EXTENDS Integers, Sequences, FiniteSets, TLC

VARIABLES
    \* ---- normalize_snils driver
    snils_in,       \* the two identifiers handed to normalize_snils
    norm_once,      \* normalize_snils of each
    norm_twice,     \* normalize_snils of norm_once
    npc,            \* position of the normaliser driver
    \* ---- deduplicate_records_by_snils driver
    raw_records,    \* the records scraped for one program table
    dedup_result,   \* what deduplicate_records_by_snils returned
    dpc,            \* position of the deduplicator driver
    \* ---- AdmissionAnalyzer
    all_program_records,        \* Vec<(String, Vec<StudentRecord>)>
    target_snils,               \* AdmissionAnalyzer.target_snils
    target_funding_types,       \* AdmissionAnalyzer.config.target_funding_types
    funding_filter,             \* AdmissionAnalyzer.funding_filter (None or a list)
    budget_exclusions,          \* AdmissionAnalyzer.budget_exclusions (None or an analysis)
    program_popularities,       \* AdmissionAnalysis.program_popularities
    final_admission_results,    \* AdmissionAnalysis.final_admission_results
    target_applicant_found,     \* AdmissionAnalysis.target_applicant_found
    target_applicant_results,   \* AdmissionAnalysis.target_applicant_results
    chance_analysis,            \* what analyze_target_chances returned (None before)
    pc,                         \* position of the analyser driver
    \* ---- process_funding_type driver
    funding_records,            \* records: one funding list of one program
    funding_excluded_in,        \* excluded_normalized_snils at the call
    funding_excluded,           \* excluded_normalized_snils at the return
    funding_admitted,           \* the Vec<String> returned
    fpc,                        \* position of the driver
    \* ---- generate_final_cutoff_analysis driver
    cutoff_report,              \* the rows written, by key of the result map
    cpc,                        \* position of the driver
    \* ---- group_by_program_and_funding_public driver
    grouped_map,                \* the map returned
    gpc                         \* position of the driver

normVars == <<snils_in, norm_once, norm_twice, npc>>
dedupVars == <<raw_records, dedup_result, dpc>>
analyzerVars == <<all_program_records, target_snils, target_funding_types,
                  funding_filter, budget_exclusions, program_popularities,
                  final_admission_results, target_applicant_found,
                  target_applicant_results, chance_analysis, pc>>
fundingVars == <<funding_records, funding_excluded_in, funding_excluded,
                 funding_admitted, fpc>>
cutoffVars == <<cutoff_report, cpc>>
groupVars == <<grouped_map, gpc>>
vars == <<normVars, dedupVars, analyzerVars, fundingVars, cutoffVars, groupVars>>

\* Option<T>: None is the empty sequence, Some(x) the one-element sequence.
None == <<>>
Some(x) == <<x>>

\* ------------------------------------------------------------------------
\* Generic helpers
\* ------------------------------------------------------------------------

\* The sequences over S of length lo..hi.
SeqsOf(S, lo, hi) == UNION {[1..n -> S] : n \in lo..hi}

Range(s) == {s[i] : i \in DOMAIN s}

\* ------------------------------------------------------------------------
\* models.rs: normalize_snils
\* ------------------------------------------------------------------------

\* char::is_alphanumeric: letters and digits; punctuation and combining
\* marks are not.
is_alphanumeric(c) == c \in {"1", "2", "3", "a", "b", "A", "B", "J", "jc"}

\* The upper-case mapping of one character, as str::to_uppercase applies it:
\* a sequence of characters, two of them for U+01F0.
char_to_uppercase(c) ==
    CASE c = "a" -> <<"A">>
      [] c = "b" -> <<"B">>
      [] c = "jc" -> <<"J", "c">>
      [] OTHER -> <<c>>

\* chars().filter(|c| c.is_alphanumeric()).collect::<String>()
RECURSIVE filter_alphanumeric(_)
filter_alphanumeric(s) ==
    IF s = <<>> THEN <<>>
    ELSE IF is_alphanumeric(Head(s))
         THEN <<Head(s)>> \o filter_alphanumeric(Tail(s))
         ELSE filter_alphanumeric(Tail(s))

\* String::to_uppercase
RECURSIVE to_uppercase(_)
to_uppercase(s) ==
    IF s = <<>> THEN <<>>
    ELSE char_to_uppercase(Head(s)) \o to_uppercase(Tail(s))

\* A normaliser that forgets to upper-case.
normalize_snils_no_upper(snils) == filter_alphanumeric(snils)

normalize_snils(snils) == to_uppercase(filter_alphanumeric(snils))

\* ---- driver: two identifiers are normalised, then normalised again

MaxSnilsLen == 2

InputChars == {"1", "a", "A", "-", "jc", "c"}

InputSnils == SeqsOf(InputChars, 0, MaxSnilsLen)

NormalizeFirst ==
    /\ npc = "start"
    /\ norm_once' = [k \in {1, 2} |-> normalize_snils(snils_in[k])]
    /\ npc' = "once"
    /\ UNCHANGED <<snils_in, norm_twice, dedupVars, analyzerVars,
                   fundingVars, cutoffVars, groupVars>>

NormalizeAgain ==
    /\ npc = "once"
    /\ norm_twice' = [k \in {1, 2} |-> normalize_snils(norm_once[k])]
    /\ npc' = "twice"
    /\ UNCHANGED <<snils_in, norm_once, dedupVars, analyzerVars,
                   fundingVars, cutoffVars, groupVars>>

NextNormalize == NormalizeFirst \/ NormalizeAgain

\* ---- claims about normalize_snils (checked under SpecNormalize)

\* C6: normalize_snils is idempotent: normalising a normalised identifier
\* changes nothing, for every input string.
C6_Idempotent ==
    npc = "twice" => \A k \in {1, 2} : norm_twice[k] = norm_once[k]

\* char::to_lowercase of one character (each maps to one character here).
char_to_lowercase(c) ==
    CASE c = "A" -> "a"
      [] c = "B" -> "b"
      [] c = "J" -> "j"
      [] OTHER -> c

\* The letters and digits of s, in order, compared ignoring case.
LettersAndDigitsIgnoringCase(s) ==
    LET f == filter_alphanumeric(s)
    IN  [i \in DOMAIN f |-> char_to_lowercase(f[i])]

\* The letters and digits of s, in order, each upper-cased: built by position
\* instead of by the two passes of the code.
RECURSIVE UpperOfAlnumFrom(_, _)
UpperOfAlnumFrom(s, i) ==
    IF i > Len(s) THEN <<>>
    ELSE (IF is_alphanumeric(s[i]) THEN char_to_uppercase(s[i]) ELSE <<>>)
         \o UpperOfAlnumFrom(s, i + 1)

lowercase_contains_da(s) == s \in {"Da", "DA", "da"}

has_consent(record) == lowercase_contains_da(record.consent)

has_original_document(record) == lowercase_contains_da(record.document_type)

\* average_score.replace(',', ".").parse::<f64>().ok(): the score cell is a
\* text; a decimal number parses (with a comma or a point) to Some(number),
\* held here in tenths, anything else to None.
get_numeric_score(record) ==
    CASE record.average_score = "85" -> Some(850)
      [] record.average_score = "90" -> Some(900)
      [] record.average_score = "95" -> Some(950)
      [] record.average_score = "4,5" -> Some(45)
      [] record.average_score = "4.5" -> Some(45)
      [] OTHER -> None

\* ------------------------------------------------------------------------
\* main.rs: deduplicate_records_by_snils, is_record_better
\* ------------------------------------------------------------------------

\* A comparison that looks at consent before the document.
is_record_better_consent_first(record1, record2) ==
    IF has_consent(record1) # has_consent(record2)
    THEN has_consent(record1)
    ELSE IF has_original_document(record1) # has_original_document(record2)
         THEN has_original_document(record1)
         ELSE record1.priority < record2.priority

is_record_better(record1, record2) ==
    IF has_original_document(record1) # has_original_document(record2)
    THEN has_original_document(record1)
    ELSE IF has_consent(record1) # has_consent(record2)
         THEN has_consent(record1)
         ELSE record1.priority < record2.priority

\* A key that is the identifier as written.
dedup_key_raw(record) == record.snils

\* The key of best_records: the normalised identifier of the record.
dedup_key(record) == normalize_snils(record.snils)

\* The loop over the records: best_records after records[i..].
RECURSIVE best_records_from(_, _, _)
best_records_from(records, i, best) ==
    IF i > Len(records) THEN best
    ELSE LET record == records[i]
             key == dedup_key(record)
             next == IF key \notin DOMAIN best
                     THEN best @@ (key :> record)
                     ELSE IF is_record_better(record, best[key])
                          THEN [best EXCEPT ![key] = record]
                          ELSE best
         IN  best_records_from(records, i + 1, next)

best_records(records) == best_records_from(records, 1, <<>>)

\* result.sort_by_key(|r| r.rank) is a stable sort of the map's values, which
\* come in the map's own (unspecified) order: every arrangement of the values
\* in which the ranks ascend is a possible result.
sorted_by_rank(values) ==
    {res \in [1..Cardinality(values) -> values] :
        /\ Range(res) = values
        /\ \A i, j \in DOMAIN res : i < j => res[i].rank <= res[j].rank}

deduplicate_records_by_snils(records) ==
    LET best == best_records(records)
    IN  sorted_by_rank({best[k] : k \in DOMAIN best})

\* ---- driver: one scraped table is deduplicated

MaxRawRecords == 2

Ranks == {1, 2}

Priorities == {1, 2}

DedupSnils == {<<"1", "a">>, <<"1", "-", "A">>, <<"2">>}

RawRecord ==
    [snils : DedupSnils, rank : Ranks, priority : Priorities,
     consent : {"Da", "Net"}, document_type : {"Da", "Net"}]

Deduplicate ==
    /\ dpc = "scraped"
    /\ \E result \in deduplicate_records_by_snils(raw_records) :
          dedup_result' = result
    /\ dpc' = "deduplicated"
    /\ UNCHANGED <<raw_records, normVars, analyzerVars,
                   fundingVars, cutoffVars, groupVars>>

NextDedup == Deduplicate

\* ---- claims about the deduplicator (checked under SpecDedup)

SameApplicant(r1, r2) == normalize_snils(r1.snils) = normalize_snils(r2.snils)

\* C8: the deduplicated list holds each normalised identifier of the input
\* exactly once and no other, every record of it is an input record, and it
\* is sorted by rank ascending.
C8_DedupOncePerIdentifier ==
    dpc = "deduplicated" =>
        /\ \A r \in Range(raw_records) :
              Cardinality({i \in DOMAIN dedup_result :
                              SameApplicant(dedup_result[i], r)}) = 1
        /\ \A i \in DOMAIN dedup_result : dedup_result[i] \in Range(raw_records)
        /\ \A i, j \in DOMAIN dedup_result :
              i < j => dedup_result[i].rank <= dedup_result[j].rank

\* Two spellings of one identifier came in and one record went out.
C8_Witness ==
    /\ dpc = "deduplicated"
    /\ Len(raw_records) = 2
    /\ raw_records[1].snils = <<"1", "a">>
    /\ raw_records[2].snils = <<"1", "-", "A">>
    /\ Len(dedup_result) = 1

\* The strict order of the tie-break: document first, then consent, then the
\* lower priority number.
Preferred(r1, r2) ==
    \/ has_original_document(r1) /\ ~has_original_document(r2)
    \/ /\ has_original_document(r1) = has_original_document(r2)
       /\ has_consent(r1) /\ ~has_consent(r2)
    \/ /\ has_original_document(r1) = has_original_document(r2)
       /\ has_consent(r1) = has_consent(r2)
       /\ r1.priority < r2.priority

\* C9: the record kept for an identifier is maximal among that identifier's
\* input records under (document, consent, lower priority number), in
\* whatever order the records arrive.
C9_KeptRecordIsMaximal ==
    dpc = "deduplicated" =>
        \A i \in DOMAIN dedup_result : \A r \in Range(raw_records) :
            SameApplicant(r, dedup_result[i]) => ~Preferred(r, dedup_result[i])

\* A record with consent and priority 1 arrived first, the same applicant's
\* record with a document, no consent and priority 2 arrived second, and the
\* second one was kept.
C9_Witness ==
    /\ dpc = "deduplicated"
    /\ Len(raw_records) = 2
    /\ SameApplicant(raw_records[1], raw_records[2])
    /\ raw_records[1].document_type = "Net" /\ raw_records[1].consent = "Da"
    /\ raw_records[1].priority = 1
    /\ raw_records[2].document_type = "Da" /\ raw_records[2].consent = "Net"
    /\ raw_records[2].priority = 2
    /\ dedup_result = <<raw_records[2]>>

\* ------------------------------------------------------------------------
\* analyzer.rs: AdmissionAnalyzer
\* ------------------------------------------------------------------------

\* The two Cyrillic funding-source literals of simulate_admission_with_
\* funding_priority, transliterated.
Budget == "budget"
Commercial == "commercial"

Min(a, b) == IF a <= b THEN a ELSE b

\* A push that puts the record at the front of its group.
push_record_front(grouped, program_name, record) ==
    LET funding_type == record.funding_source
        inner == IF program_name \in DOMAIN grouped
                 THEN grouped[program_name] ELSE <<>>
        list == IF funding_type \in DOMAIN inner
                THEN inner[funding_type] ELSE <<>>
        inner2 == [f \in DOMAIN inner \cup {funding_type} |->
                     IF f = funding_type THEN <<record>> \o list ELSE inner[f]]
    IN  [p \in DOMAIN grouped \cup {program_name} |->
           IF p = program_name THEN inner2 ELSE grouped[p]]

\* grouped.entry(program_name).or_insert_with(HashMap::new)
\*        .entry(funding_type).or_insert_with(Vec::new).push(record)
push_record(grouped, program_name, record) ==
    LET funding_type == record.funding_source
        inner == IF program_name \in DOMAIN grouped
                 THEN grouped[program_name] ELSE <<>>
        list == IF funding_type \in DOMAIN inner
                THEN inner[funding_type] ELSE <<>>
        inner2 == [f \in DOMAIN inner \cup {funding_type} |->
                     IF f = funding_type THEN Append(list, record) ELSE inner[f]]
    IN  [p \in DOMAIN grouped \cup {program_name} |->
           IF p = program_name THEN inner2 ELSE grouped[p]]

RECURSIVE group_records_from(_, _, _, _)
group_records_from(program_name, records, j, grouped) ==
    IF j > Len(records) THEN grouped
    ELSE group_records_from(program_name, records, j + 1,
                            push_record(grouped, program_name, records[j]))

RECURSIVE group_entries_from(_, _, _)
group_entries_from(all, i, grouped) ==
    IF i > Len(all) THEN grouped
    ELSE IF all[i][2] = <<>>
         THEN group_entries_from(all, i + 1, grouped)
         ELSE group_entries_from(all, i + 1,
                  group_records_from(all[i][1], all[i][2], 1, grouped))

\* program name -> funding type -> records, each list in input order.
group_by_program_and_funding(all) == group_entries_from(all, 1, <<>>)

filter_by_funding_types(program_funding_groups, filter) ==
    LET kept(p) == {f \in DOMAIN program_funding_groups[p] : f \in Range(filter)}
        programs == {p \in DOMAIN program_funding_groups : kept(p) # {}}
    IN  [p \in programs |-> [f \in kept(p) |-> program_funding_groups[p][f]]]

\* ---- f64 values: a quotient num/den of two non-negative integers.
\* den = 0 with num > 0 is +infinity, 0/0 is NaN.

is_nan(x) == x.num = 0 /\ x.den = 0

\* f64::partial_cmp: None when either side is NaN.
partial_cmp(x, y) ==
    IF is_nan(x) \/ is_nan(y) THEN None
    ELSE IF x.num * y.den < y.num * x.den THEN Some("Less")
    ELSE IF x.num * y.den > y.num * x.den THEN Some("Greater")
    ELSE Some("Equal")

unwrap_or_equal(o) == IF o = None THEN "Equal" ELSE o[1]

RECURSIVE sum_scores(_)
sum_scores(scores) ==
    IF scores = <<>> THEN 0 ELSE Head(scores) + sum_scores(Tail(scores))

\* filter_map(|record| record.get_numeric_score()).collect()
RECURSIVE numeric_scores(_)
numeric_scores(records) ==
    IF records = <<>> THEN <<>>
    ELSE get_numeric_score(Head(records)) \o numeric_scores(Tail(records))

is_eager(record) == has_original_document(record) \/ has_consent(record)

calculate_program_popularity(program_name, records) ==
    LET available_places == records[1].available_places
        eager_applicants == SelectSeq(records, is_eager)
        total_applicants == Len(eager_applicants)
        top_count == Min(available_places * 2, Len(eager_applicants))
        top_scores == numeric_scores(SubSeq(eager_applicants, 1, top_count))
    IN  [program_name |-> program_name,
         applications_per_place |->
             [num |-> total_applicants, den |-> available_places],
         top_third_average_score |->
             IF top_scores = <<>> THEN [num |-> 0, den |-> 1]
             ELSE [num |-> sum_scores(top_scores), den |-> Len(top_scores)],
         available_places |-> available_places,
         total_applications |-> Len(records),
         total_applicants |-> total_applicants,
         eager_applicants |-> eager_applicants]

\* The closure of program_popularities.sort_by: descending by applications
\* per place, then descending by the top-subset average score.
popularity_compare(a, b) ==
    LET first == unwrap_or_equal(partial_cmp(b.applications_per_place,
                                             a.applications_per_place))
    IN  IF first # "Equal" THEN first
        ELSE unwrap_or_equal(partial_cmp(b.top_third_average_score,
                                         a.top_third_average_score))

\* Whether the closure orders these entries consistently (it does not when a
\* NaN compares Equal to two entries that are not Equal to each other).
compare_is_consistent(popularities) ==
    \A a, b, c \in popularities :
        (popularity_compare(a, b) # "Greater" /\ popularity_compare(b, c) # "Greater")
            => popularity_compare(a, c) # "Greater"

\* The vector is pushed in the map's iteration order (unspecified) and sorted
\* by a stable sort: every arrangement in which no entry precedes one that
\* compares Less than it is a possible result; with an inconsistent closure
\* the order sort_by leaves is unspecified.
sorted_popularities(popularities) ==
    {v \in [1..Cardinality(popularities) -> popularities] :
        /\ Range(v) = popularities
        /\ compare_is_consistent(popularities) =>
              \A i, j \in DOMAIN v :
                  i < j => popularity_compare(v[i], v[j]) # "Greater"}

\* The first loop of process_funding_type (eager = TRUE) and its second
\* (eager = FALSE): from record i on, with the eligible list and the seen set
\* so far.
RECURSIVE select_applicants(_, _, _, _, _, _, _)
select_applicants(records, i, excluded, seen, eligible, available_places, eager) ==
    IF i > Len(records) THEN [eligible |-> eligible, seen |-> seen]
    ELSE LET record == records[i]
             normalized == normalize_snils(record.snils)
         IN  IF normalized \in excluded \/ normalized \in seen
             THEN select_applicants(records, i + 1, excluded, seen, eligible,
                                    available_places, eager)
             ELSE IF is_eager(record) = eager
             THEN IF Len(eligible) + 1 >= available_places
                  THEN [eligible |-> Append(eligible, record),
                        seen |-> seen \cup {normalized}]
                  ELSE select_applicants(records, i + 1, excluded,
                                         seen \cup {normalized},
                                         Append(eligible, record),
                                         available_places, eager)
             ELSE select_applicants(records, i + 1, excluded, seen, eligible,
                                    available_places, eager)

\* A process_funding_type that admits without looking at the exclusion set.
process_funding_type_unchecked(records, excluded_normalized_snils) ==
    IF records = <<>>
    THEN [admitted |-> <<>>, excluded |-> excluded_normalized_snils]
    ELSE LET available_places == records[1].available_places
             first == select_applicants(records, 1, {}, {}, <<>>,
                                        available_places, TRUE)
             second == IF Len(first.eligible) < available_places
                       THEN select_applicants(records, 1, {}, first.seen,
                                              first.eligible, available_places,
                                              FALSE)
                       ELSE first
             admitted == [k \in DOMAIN second.eligible |-> second.eligible[k].snils]
         IN  [admitted |-> admitted,
              excluded |-> excluded_normalized_snils
                             \cup {normalize_snils(admitted[k]) : k \in DOMAIN admitted}]

\* A process_funding_type whose second loop fills the free places without
\* looking at the exclusion set.
process_funding_type_fill_any(records, excluded_normalized_snils) ==
    IF records = <<>>
    THEN [admitted |-> <<>>, excluded |-> excluded_normalized_snils]
    ELSE LET available_places == records[1].available_places
             first == select_applicants(records, 1, excluded_normalized_snils,
                                        {}, <<>>, available_places, TRUE)
             second == IF Len(first.eligible) < available_places
                       THEN select_applicants(records, 1, {}, first.seen,
                                              first.eligible, available_places,
                                              FALSE)
                       ELSE first
             admitted == [k \in DOMAIN second.eligible |-> second.eligible[k].snils]
         IN  [admitted |-> admitted,
              excluded |-> excluded_normalized_snils
                             \cup {normalize_snils(admitted[k]) : k \in DOMAIN admitted}]

\* A process_funding_type whose second loop runs whether or not the eager
\* applicants left a place free.
process_funding_type_always_fill(records, excluded_normalized_snils) ==
    IF records = <<>>
    THEN [admitted |-> <<>>, excluded |-> excluded_normalized_snils]
    ELSE LET available_places == records[1].available_places
             first == select_applicants(records, 1, excluded_normalized_snils,
                                        {}, <<>>, available_places, TRUE)
             second == select_applicants(records, 1,
                                         excluded_normalized_snils,
                                         first.seen, first.eligible,
                                         available_places, FALSE)
             admitted == [k \in DOMAIN second.eligible |-> second.eligible[k].snils]
         IN  [admitted |-> admitted,
              excluded |-> excluded_normalized_snils
                             \cup {normalize_snils(admitted[k]) : k \in DOMAIN admitted}]

\* A process_funding_type without the second loop: free places stay free.
process_funding_type_eager_only(records, excluded_normalized_snils) ==
    IF records = <<>>
    THEN [admitted |-> <<>>, excluded |-> excluded_normalized_snils]
    ELSE LET available_places == records[1].available_places
             first == select_applicants(records, 1, excluded_normalized_snils,
                                        {}, <<>>, available_places, TRUE)
             admitted == [k \in DOMAIN first.eligible |-> first.eligible[k].snils]
         IN  [admitted |-> admitted,
              excluded |-> excluded_normalized_snils
                             \cup {normalize_snils(admitted[k]) : k \in DOMAIN admitted}]

\* A process_funding_type whose first loop starts at the second record.
process_funding_type_from_second(records, excluded_normalized_snils) ==
    IF records = <<>>
    THEN [admitted |-> <<>>, excluded |-> excluded_normalized_snils]
    ELSE LET available_places == records[1].available_places
             first == select_applicants(records, 2, excluded_normalized_snils,
                                        {}, <<>>, available_places, TRUE)
             second == IF Len(first.eligible) < available_places
                       THEN select_applicants(records, 1,
                                              excluded_normalized_snils,
                                              first.seen, first.eligible,
                                              available_places, FALSE)
                       ELSE first
             admitted == [k \in DOMAIN second.eligible |-> second.eligible[k].snils]
         IN  [admitted |-> admitted,
              excluded |-> excluded_normalized_snils
                             \cup {normalize_snils(admitted[k]) : k \in DOMAIN admitted}]

\* Returns the admitted identifiers (as written in the records) and the
\* exclusion set as process_funding_type leaves it.
process_funding_type(records, excluded_normalized_snils) ==
    IF records = <<>>
    THEN [admitted |-> <<>>, excluded |-> excluded_normalized_snils]
    ELSE LET available_places == records[1].available_places
             first == select_applicants(records, 1, excluded_normalized_snils,
                                        {}, <<>>, available_places, TRUE)
             second == IF Len(first.eligible) < available_places
                       THEN select_applicants(records, 1,
                                              excluded_normalized_snils,
                                              first.seen, first.eligible,
                                              available_places, FALSE)
                       ELSE first
             admitted == [k \in DOMAIN second.eligible |-> second.eligible[k].snils]
         IN  [admitted |-> admitted,
              excluded |-> excluded_normalized_snils
                             \cup {normalize_snils(admitted[k]) : k \in DOMAIN admitted}]

\* final_results.insert(program_name, admitted)
insert_result(final_results, program_name, admitted) ==
    [p \in DOMAIN final_results \cup {program_name} |->
        IF p = program_name THEN admitted ELSE final_results[p]]

normalized_set(snilses) == {normalize_snils(snilses[k]) : k \in DOMAIN snilses}

\* A funding-priority simulation whose exclusion set is scoped to the
\* program: every program starts from an empty set.
RECURSIVE funding_priority_from_program_scoped(_, _, _, _, _)
funding_priority_from_program_scoped(popularities, i, program_funding_groups, final_results, excluded) ==
    IF i > Len(popularities) THEN final_results
    ELSE LET program_name == popularities[i].program_name
         IN  IF program_name \notin DOMAIN program_funding_groups
             THEN funding_priority_from_program_scoped(
                      popularities, i + 1, program_funding_groups,
                      final_results, excluded)
             ELSE LET funding_groups == program_funding_groups[program_name]
                      budget ==
                          IF Budget \in DOMAIN funding_groups
                          THEN process_funding_type(funding_groups[Budget], {})
                          ELSE [admitted |-> <<>>, excluded |-> {}]
                      commercial ==
                          IF Commercial \in DOMAIN funding_groups
                          THEN process_funding_type(funding_groups[Commercial],
                                                    budget.excluded)
                          ELSE [admitted |-> <<>>, excluded |-> budget.excluded]
                  IN  funding_priority_from_program_scoped(
                          popularities, i + 1, program_funding_groups,
                          insert_result(final_results, program_name,
                                        budget.admitted \o commercial.admitted),
                          excluded)

\* A funding-priority simulation that runs the commercial pass of a program
\* before its budget pass.
RECURSIVE funding_priority_from_commercial_first(_, _, _, _, _)
funding_priority_from_commercial_first(popularities, i, program_funding_groups, final_results, excluded) ==
    IF i > Len(popularities) THEN final_results
    ELSE LET program_name == popularities[i].program_name
         IN  IF program_name \notin DOMAIN program_funding_groups
             THEN funding_priority_from_commercial_first(
                      popularities, i + 1, program_funding_groups,
                      final_results, excluded)
             ELSE LET funding_groups == program_funding_groups[program_name]
                      commercial ==
                          IF Commercial \in DOMAIN funding_groups
                          THEN process_funding_type(funding_groups[Commercial],
                                                    excluded)
                          ELSE [admitted |-> <<>>, excluded |-> excluded]
                      budget ==
                          IF Budget \in DOMAIN funding_groups
                          THEN process_funding_type(funding_groups[Budget],
                                                    commercial.excluded)
                          ELSE [admitted |-> <<>>, excluded |-> commercial.excluded]
                  IN  funding_priority_from_commercial_first(
                          popularities, i + 1, program_funding_groups,
                          insert_result(final_results, program_name,
                                        commercial.admitted \o budget.admitted),
                          budget.excluded)

\* The loop of simulate_admission_with_funding_priority from entry i of
\* program_popularities on.
RECURSIVE funding_priority_from(_, _, _, _, _)
funding_priority_from(popularities, i, program_funding_groups, final_results, excluded) ==
    IF i > Len(popularities) THEN final_results
    ELSE LET program_name == popularities[i].program_name
         IN  IF program_name \notin DOMAIN program_funding_groups
             THEN funding_priority_from(popularities, i + 1,
                                        program_funding_groups, final_results,
                                        excluded)
             ELSE LET funding_groups == program_funding_groups[program_name]
                      budget ==
                          IF Budget \in DOMAIN funding_groups
                          THEN process_funding_type(funding_groups[Budget], excluded)
                          ELSE [admitted |-> <<>>, excluded |-> excluded]
                      commercial ==
                          IF Commercial \in DOMAIN funding_groups
                          THEN process_funding_type(funding_groups[Commercial],
                                                    budget.excluded)
                          ELSE [admitted |-> <<>>, excluded |-> budget.excluded]
                  IN  funding_priority_from(popularities, i + 1,
                          program_funding_groups,
                          insert_result(final_results, program_name,
                                        budget.admitted \o commercial.admitted),
                          commercial.excluded)

simulate_admission_with_funding_priority(popularities, program_funding_groups) ==
    funding_priority_from(popularities, 1, program_funding_groups, <<>>, {})

\* for records in funding_groups.values(): the funding types in the order
\* the map yields them, from the k-th on.
RECURSIVE process_funding_groups(_, _, _, _, _)
process_funding_groups(funding_groups, order, k, local_excluded, all_admitted) ==
    IF k > Len(order)
    THEN [admitted |-> all_admitted, excluded |-> local_excluded]
    ELSE LET r == process_funding_type(funding_groups[order[k]], local_excluded)
         IN  process_funding_groups(funding_groups, order, k + 1, r.excluded,
                                    all_admitted \o r.admitted)

\* Exclusions that hold the identifiers as the budget analysis wrote them.
budget_excluded_snils_raw ==
    IF budget_exclusions = None THEN {}
    ELSE LET budget_results == budget_exclusions[1].final_admission_results
         IN  {n \in UNION {Range(budget_results[p]) : p \in DOMAIN budget_results} :
                 normalize_snils(target_snils) # normalize_snils(n)}

\* The exclusions the budget analysis contributes: every admitted identifier
\* except the target applicant.
budget_excluded_snils ==
    IF budget_exclusions = None THEN {}
    ELSE LET budget_results == budget_exclusions[1].final_admission_results
         IN  {n \in UNION {normalized_set(budget_results[p]) :
                              p \in DOMAIN budget_results} :
                 normalize_snils(target_snils) # n}

\* The exclusion set a program starts from: the global one, without the
\* target applicant when the budget analysis admitted them to this program.
local_excluded_for(program_name, excluded) ==
    IF /\ budget_exclusions # None
       /\ program_name \in DOMAIN budget_exclusions[1].final_admission_results
       /\ normalize_snils(target_snils) \in
             normalized_set(budget_exclusions[1].final_admission_results[program_name])
    THEN excluded \ {normalize_snils(target_snils)}
    ELSE excluded

\* The loop of simulate_admission_with_funding_filter from entry i of
\* program_popularities on; values_order[p] is the order in which the map of
\* program p yields its funding groups.
RECURSIVE funding_filter_from(_, _, _, _, _, _)
funding_filter_from(popularities, i, program_funding_groups, values_order, final_results, excluded) ==
    IF i > Len(popularities) THEN final_results
    ELSE LET program_name == popularities[i].program_name
         IN  IF program_name \notin DOMAIN program_funding_groups
             THEN funding_filter_from(popularities, i + 1,
                                      program_funding_groups, values_order,
                                      final_results, excluded)
             ELSE LET r == process_funding_groups(
                               program_funding_groups[program_name],
                               values_order[program_name], 1,
                               local_excluded_for(program_name, excluded), <<>>)
                  IN  funding_filter_from(popularities, i + 1,
                          program_funding_groups, values_order,
                          insert_result(final_results, program_name, r.admitted),
                          excluded \cup normalized_set(r.admitted))

simulate_admission_with_funding_filter(popularities, program_funding_groups, values_order) ==
    funding_filter_from(popularities, 1, program_funding_groups, values_order,
                        <<>>, budget_excluded_snils)

\* The loop of check_target_applicant_results from input entry i on.
RECURSIVE check_target_from(_, _, _, _, _, _)
check_target_from(final_results, all, i, processed_programs, found, results) ==
    IF i > Len(all) THEN [found |-> found, results |-> results]
    ELSE LET program_name == all[i][1]
             records == all[i][2]
             normalized_target == normalize_snils(target_snils)
             exists_in_program == normalized_target \in
                 {normalize_snils(records[k].snils) : k \in DOMAIN records}
             admitted == IF program_name \in DOMAIN final_results
                         THEN normalized_target \in
                                  normalized_set(final_results[program_name])
                         ELSE FALSE
         IN  IF program_name \in processed_programs
             THEN check_target_from(final_results, all, i + 1,
                                    processed_programs, found, results)
             ELSE IF exists_in_program
             THEN check_target_from(final_results, all, i + 1,
                                    processed_programs \cup {program_name}, TRUE,
                                    Append(results, <<program_name, admitted>>))
             ELSE check_target_from(final_results, all, i + 1,
                                    processed_programs \cup {program_name},
                                    found, results)

check_target_applicant_results(final_results, all) ==
    check_target_from(final_results, all, 1, {}, FALSE, <<>>)

\* funding_groups.keys().any(...): the filter when there is one, else the
\* configured target funding types.
\* The fold of Iterator::min_by over program_popularities from entry i on,
\* with the closure of generate_recommendation: the smaller of acc and the
\* next entry by applications_per_place, the earlier one when they are equal.
\* partial_cmp(..).unwrap() panics when either value is NaN: None.
RECURSIVE min_by_from(_, _, _)
min_by_from(popularities, i, acc) ==
    IF i > Len(popularities) THEN Some(acc)
    ELSE LET ordering == partial_cmp(acc.applications_per_place,
                                     popularities[i].applications_per_place)
         IN  IF ordering = None THEN None
             ELSE min_by_from(popularities, i + 1,
                              IF ordering[1] = "Greater" THEN popularities[i]
                              ELSE acc)

\* A generate_recommendation without the early return for a target that
\* was not found.
generate_recommendation_found_only(admitted_programs, found, popularities) ==
    IF admitted_programs = <<>>
    THEN IF popularities = <<>>
         THEN Some([kind |-> "low_chances", programs |-> <<>>])
         ELSE LET least_popular == min_by_from(popularities, 2, popularities[1])
              IN  IF least_popular = None THEN None
                  ELSE Some([kind |-> "low_chances",
                             programs |-> <<least_popular[1].program_name>>])
    ELSE IF Len(admitted_programs) = 1
    THEN Some([kind |-> "one_program", programs |-> admitted_programs])
    ELSE Some([kind |-> "several_programs", programs |-> admitted_programs])

\* The text generate_recommendation returns, as its kind and the programs it
\* names; None when it panics.
generate_recommendation(admitted_programs, found, popularities) ==
    IF ~found
    THEN Some([kind |-> "not_found", programs |-> <<>>])
    ELSE IF admitted_programs = <<>>
    THEN IF popularities = <<>>
         THEN Some([kind |-> "low_chances", programs |-> <<>>])
         ELSE LET least_popular == min_by_from(popularities, 2, popularities[1])
              IN  IF least_popular = None THEN None
                  ELSE Some([kind |-> "low_chances",
                             programs |-> <<least_popular[1].program_name>>])
    ELSE IF Len(admitted_programs) = 1
    THEN Some([kind |-> "one_program", programs |-> admitted_programs])
    ELSE Some([kind |-> "several_programs", programs |-> admitted_programs])

\* The program names of the entries of target_results whose flag is admitted.
RECURSIVE programs_with(_, _)
programs_with(target_results, admitted) ==
    IF target_results = <<>> THEN <<>>
    ELSE (IF Head(target_results)[2] = admitted
          THEN <<Head(target_results)[1]>> ELSE <<>>)
         \o programs_with(Tail(target_results), admitted)

\* An analyze_target_chances that lists every program as rejected.
analyze_target_chances_rejected_all(target_results, found, popularities) ==
    LET programs_admitted_to == programs_with(target_results, TRUE)
        programs_rejected_from ==
            [k \in DOMAIN target_results |-> target_results[k][1]]
        final_recommendation == generate_recommendation(
                                    programs_admitted_to, found, popularities)
    IN  IF final_recommendation = None THEN None
        ELSE Some([programs_admitted_to |-> programs_admitted_to,
                   programs_rejected_from |-> programs_rejected_from,
                   final_recommendation |-> final_recommendation[1]])

\* Some(ChanceAnalysis), or None when generate_recommendation panics.
analyze_target_chances(target_results, found, popularities) ==
    LET programs_admitted_to == programs_with(target_results, TRUE)
        programs_rejected_from == programs_with(target_results, FALSE)
        final_recommendation == generate_recommendation(
                                    programs_admitted_to, found, popularities)
    IN  IF final_recommendation = None THEN None
        ELSE Some([programs_admitted_to |-> programs_admitted_to,
                   programs_rejected_from |-> programs_rejected_from,
                   final_recommendation |-> final_recommendation[1]])

has_target_funding(funding_groups) ==
    \E funding_type \in DOMAIN funding_groups :
        IF funding_filter # None
        THEN funding_type \in Range(funding_filter[1])
        ELSE funding_type \in target_funding_types

\* The orders in which a map with these keys can yield them.
IterationOrders(keys) ==
    {o \in [1..Cardinality(keys) -> keys] : Range(o) = keys}

\* ---- the analyser's operations

TargetSnils == <<"1", "a">>

New ==
    /\ pc = "input"
    /\ \E types \in {{Budget}, {Budget, Commercial}} :
          target_funding_types' = types
    /\ funding_filter' = None
    /\ budget_exclusions' = None
    /\ pc' = "constructed"
    /\ UNCHANGED <<all_program_records, target_snils, program_popularities,
                   final_admission_results, target_applicant_found,
                   target_applicant_results, chance_analysis, normVars,
                   dedupVars,
                   fundingVars, cutoffVars, groupVars>>

NewWithFundingFilter ==
    /\ pc = "input"
    /\ \E funding_types \in {<<Budget>>, <<Commercial>>} :
          funding_filter' = Some(funding_types)
    /\ target_funding_types' = {Budget}
    /\ budget_exclusions' = None
    /\ pc' = "constructed"
    /\ UNCHANGED <<all_program_records, target_snils, program_popularities,
                   final_admission_results, target_applicant_found,
                   target_applicant_results, chance_analysis, normVars,
                   dedupVars,
                   fundingVars, cutoffVars, groupVars>>

\* The commercial run that follows a budget run: the analyser is built with
\* the budget run's analysis.
NewWithFundingFilterAndBudgetExclusions ==
    /\ pc = "analyzed"
    /\ funding_filter = Some(<<Budget>>)
    /\ budget_exclusions = None
    /\ funding_filter' = Some(<<Commercial>>)
    /\ budget_exclusions' =
          Some([program_popularities |-> program_popularities,
                final_admission_results |-> final_admission_results,
                target_applicant_found |-> target_applicant_found,
                target_applicant_results |-> target_applicant_results])
    /\ pc' = "constructed"
    /\ UNCHANGED <<all_program_records, target_snils, target_funding_types,
                   program_popularities, final_admission_results,
                   target_applicant_found, target_applicant_results,
                   chance_analysis, normVars, dedupVars,
                   fundingVars, cutoffVars, groupVars>>

\* The analyses analyze_all_programs can return for this input: one for
\* every order in which the maps can yield their programs and funding types
\* (values_order[p] is the order of the funding groups of program p; the
\* order of the programs shows in the arrangement the sort leaves).
analyze_all_programs(all) ==
    LET program_funding_groups == group_by_program_and_funding(all)
        filtered == IF funding_filter # None
                    THEN filter_by_funding_types(program_funding_groups,
                                                 funding_filter[1])
                    ELSE program_funding_groups
        ranked == {p \in DOMAIN filtered : has_target_funding(filtered[p])}
        orders ==
            {values_order \in
                 [DOMAIN filtered -> UNION {IterationOrders(DOMAIN filtered[p]) :
                                               p \in DOMAIN filtered}] :
                \A p \in DOMAIN filtered :
                    values_order[p] \in IterationOrders(DOMAIN filtered[p])}
        analysis(values_order, sorted) ==
            LET results ==
                    IF funding_filter # None
                    THEN simulate_admission_with_funding_filter(
                             sorted, filtered, values_order)
                    ELSE simulate_admission_with_funding_priority(
                             sorted, filtered)
                target == check_target_applicant_results(results, all)
            IN  [program_popularities |-> sorted,
                 final_admission_results |-> results,
                 target_applicant_found |-> target.found,
                 target_applicant_results |-> target.results]
    IN  UNION {{analysis(values_order, sorted) :
                   sorted \in sorted_popularities(
                       {calculate_program_popularity(
                            p, filtered[p][values_order[p][1]]) : p \in ranked})} :
               values_order \in orders}

AnalyzeAllPrograms ==
    /\ pc = "constructed"
    /\ \E analysis \in analyze_all_programs(all_program_records) :
          /\ program_popularities' = analysis.program_popularities
          /\ final_admission_results' = analysis.final_admission_results
          /\ target_applicant_found' = analysis.target_applicant_found
          /\ target_applicant_results' = analysis.target_applicant_results
    /\ pc' = "analyzed"
    /\ UNCHANGED <<all_program_records, target_snils, target_funding_types,
                   funding_filter, budget_exclusions, chance_analysis,
                   normVars, dedupVars,
                   fundingVars, cutoffVars, groupVars>>

\* analyze_target_chances(&analysis) on the analysis just returned. When
\* generate_recommendation panics the call returns nothing: pc = "aborted".
AnalyzeTargetChances ==
    /\ pc = "analyzed"
    /\ LET chances == analyze_target_chances(
                          target_applicant_results, target_applicant_found,
                          program_popularities)
       IN  /\ chance_analysis' = chances
           /\ pc' = IF chances = None THEN "aborted" ELSE "advised"
    /\ UNCHANGED <<all_program_records, target_snils, target_funding_types,
                   funding_filter, budget_exclusions, program_popularities,
                   final_admission_results, target_applicant_found,
                   target_applicant_results, normVars, dedupVars,
                   fundingVars, cutoffVars, groupVars>>

Next ==
    \/ New
    \/ NewWithFundingFilter
    \/ NewWithFundingFilterAndBudgetExclusions
    \/ AnalyzeAllPrograms
    \/ AnalyzeTargetChances

\* ---- the inputs of the analyser: what main passes to analyze_all_programs,
\* one entry per scraped table, each deduplicated and in rank order. All
\* records of a table carry the table's program name, funding source and
\* number of places.

MaxEntries == 2
MaxRecords == 2

\* The numbers of places a table states (0 when the page states none).
PlaceCounts == {0, 1}

ProgramNames == {"X", "Y"}

FundingSources == {Budget, Commercial}

\* The applicants of the lists: the target applicant (written differently
\* from the configured identifier) and another one in two spellings.
ListSnils == {<<"1", "-", "A">>, <<"2">>, <<"2", "-">>}

\* Each applicant's score cell (the second spelling comes with a decimal
\* comma).
score_cell(snils) ==
    CASE snils = <<"1", "-", "A">> -> "90"
      [] snils = <<"2">> -> "85"
      [] snils = <<"2", "-">> -> "4,5"
      [] OTHER -> "-"

\* The priority an applicant states for a program: the target applicant
\* prefers Y, the other applicant X.
priority_cell(program_name, snils) ==
    IF (normalize_snils(snils) = <<"1", "A">>) = (program_name = "Y")
    THEN 1 ELSE 2

\* A row of a table: who, and whether they gave consent.
Rows == [snils : ListSnils, consent : {"Da", "Net"}]

\* The rows of one deduplicated table.
Tables(rows, maxlen) ==
    {t \in SeqsOf(rows, 1, maxlen) :
        \A i, j \in DOMAIN t :
            i # j => normalize_snils(t[i].snils) # normalize_snils(t[j].snils)}

table_records(program_name, funding_source, available_places, table) ==
    [k \in DOMAIN table |->
        [rank |-> k,
         snils |-> table[k].snils,
         priority |-> priority_cell(program_name, table[k].snils),
         consent |-> table[k].consent,
         document_type |-> "Net",
         average_score |-> score_cell(table[k].snils),
         program_name |-> program_name,
         funding_source |-> funding_source,
         available_places |-> available_places]]

Entries ==
    {<<p, table_records(p, f, n, t)>> :
        p \in ProgramNames, f \in FundingSources, n \in PlaceCounts,
        t \in Tables(Rows, MaxRecords)}

Inputs == SeqsOf(Entries, 1, MaxEntries)

\* ---- three tables of one row each (SpecThreeTables): what a budget run
\* followed by a commercial run needs to meet two commercial lists after a
\* budget list. Every table states one place.

SingleRowEntries ==
    {<<p, table_records(p, f, 1, <<row>>)>> :
        p \in ProgramNames, f \in FundingSources,
        row \in [snils : {<<"1", "-", "A">>, <<"2">>}, consent : {"Da", "Net"}]}

ThreeTableInputs == [1..3 -> SingleRowEntries]

\* ---- claims about the analyser (checked under Spec unless said otherwise)

\* The records of the input that belong to offering (p, f).
OfferingRecords(p, f) ==
    {r \in UNION {Range(all_program_records[i][2]) :
                     i \in {k \in DOMAIN all_program_records :
                               all_program_records[k][1] = p}} :
        r.funding_source = f}

\* The places of the offerings of program p that the run simulated: those of
\* the filter when there is one, budget and commercial otherwise. An offering
\* whose tables disagree counts with the largest number they state.
SimulatedFundings ==
    IF funding_filter # None THEN Range(funding_filter[1])
    ELSE {Budget, Commercial}

MaxPlacesOf(records) ==
    IF records = {} THEN 0
    ELSE CHOOSE n \in {r.available_places : r \in records} :
            \A r \in records : r.available_places <= n

RECURSIVE SumPlaces(_, _)
SumPlaces(p, fundings) ==
    IF fundings = {} THEN 0
    ELSE LET f == CHOOSE x \in fundings : TRUE
         IN  MaxPlacesOf(OfferingRecords(p, f)) + SumPlaces(p, fundings \ {f})

\* C1: after analyze_all_programs, in every variant, no admitted list is
\* longer than the places of the offering it belongs to (read generously: the
\* list of a program is no longer than the places of all its simulated
\* offerings together), offerings with 0 places included.
C1_CapacityInvariant ==
    pc = "analyzed" =>
        \A p \in DOMAIN final_admission_results :
            Len(final_admission_results[p]) <= SumPlaces(p, SimulatedFundings)

\* Every (program, position) of the admitted lists.
AdmittedSlots ==
    UNION {{<<p, k>> : k \in DOMAIN final_admission_results[p]} :
              p \in DOMAIN final_admission_results}

AdmittedAt(slot) == normalize_snils(final_admission_results[slot[1]][slot[2]])

\* C2: in the analysis without a funding filter no normalised identifier is
\* admitted twice, neither in two lists nor twice in one list.
C2_AdmittedAtMostOnce ==
    (pc = "analyzed" /\ funding_filter = None) =>
        \A s1, s2 \in AdmittedSlots : s1 # s2 => AdmittedAt(s1) # AdmittedAt(s2)

\* One applicant stands, eager, in the budget list and (written with a dash)
\* in the commercial list of program X, both with a free place, and is
\* admitted once.
C2_Witness ==
    /\ pc = "analyzed" /\ funding_filter = None
    /\ Len(all_program_records) = 2
    /\ all_program_records[1][1] = "X" /\ all_program_records[2][1] = "X"
    /\ Len(all_program_records[1][2]) = 1 /\ Len(all_program_records[2][2]) = 1
    /\ all_program_records[1][2][1].funding_source = Budget
    /\ all_program_records[2][2][1].funding_source = Commercial
    /\ all_program_records[1][2][1].available_places = 1
    /\ all_program_records[2][2][1].available_places = 1
    /\ all_program_records[1][2][1].snils = <<"2">>
    /\ all_program_records[2][2][1].snils = <<"2", "-">>
    /\ is_eager(all_program_records[1][2][1])
    /\ is_eager(all_program_records[2][2][1])
    /\ final_admission_results = [p \in {"X"} |-> <<<<"2">>>>]

TargetAdmittedIn(results, p) ==
    normalize_snils(target_snils) \in normalized_set(results[p])

EveryTableHasPlaces ==
    \A i \in DOMAIN all_program_records :
        \A r \in Range(all_program_records[i][2]) : r.available_places >= 1

\* C3: in the commercial run with budget exclusions, a target whom the budget
\* run admitted to program Y is admitted to no program other than Y (stated
\* for the inputs in which every table has at least one place).
C3_TargetOnlyInSameProgram ==
    (pc = "analyzed" /\ budget_exclusions # None /\ EveryTableHasPlaces) =>
        \A y \in DOMAIN budget_exclusions[1].final_admission_results :
            TargetAdmittedIn(budget_exclusions[1].final_admission_results, y) =>
                \A p \in DOMAIN final_admission_results :
                    p # y => ~TargetAdmittedIn(final_admission_results, p)

\* The normalised identifiers the budget run admitted, the target excepted.
BudgetAdmittedOthers ==
    {n \in UNION {normalized_set(budget_exclusions[1].final_admission_results[p]) :
                     p \in DOMAIN budget_exclusions[1].final_admission_results} :
        n # normalize_snils(target_snils)}

\* C4: in the run with budget exclusions no identifier that the budget run
\* admitted, the target excepted, is admitted anywhere, however it is written.
C4_BudgetAdmittedStayExcluded ==
    (pc = "analyzed" /\ budget_exclusions # None) =>
        \A s \in AdmittedSlots : AdmittedAt(s) \notin BudgetAdmittedOthers

\* The budget run admitted an applicant written with a dash; the commercial
\* list of a program with a free place holds only that applicant, eager and
\* written without the dash, and the commercial run admits nobody there.
C4_Witness ==
    /\ pc = "analyzed" /\ budget_exclusions # None
    /\ budget_exclusions[1].final_admission_results = [p \in {"Y"} |-> <<<<"2", "-">>>>]
    /\ Len(all_program_records) = 2
    /\ all_program_records[2][1] = "X"
    /\ Len(all_program_records[2][2]) = 1
    /\ all_program_records[2][2][1].funding_source = Commercial
    /\ all_program_records[2][2][1].available_places = 1
    /\ all_program_records[2][2][1].snils = <<"2">>
    /\ is_eager(all_program_records[2][2][1])
    /\ final_admission_results = [p \in {"X"} |-> <<>>]

\* C10: target_applicant_found is true exactly when some record of the input
\* carries the target's normalised identifier, also when that record is in a
\* second entry of a program name seen before.
C10_FoundIffInInput ==
    pc = "analyzed" =>
        (target_applicant_found <=>
            \E i \in DOMAIN all_program_records :
                normalize_snils(target_snils) \in
                    {normalize_snils(r.snils) : r \in Range(all_program_records[i][2])})

\* ---- the end-to-end scenario: one table, program X, budget funding, two
\* places, the eager applicants A, B, C in rank order; their priorities and
\* score cells vary.

ScenarioSnils == <<<<"1">>, <<"2">>, <<"3">>>>

ScenarioInputs ==
    {<<<<"X", [k \in 1..3 |->
                 [rank |-> k,
                  snils |-> ScenarioSnils[k],
                  priority |-> priorities[k],
                  consent |-> "Da",
                  document_type |-> "Net",
                  average_score |-> scores[k],
                  program_name |-> "X",
                  funding_source |-> Budget,
                  available_places |-> 2]]>>>> :
        priorities \in [1..3 -> Priorities],
        scores \in [1..3 -> {"85", "90", "95"}]}

\* The input of the scenario: A(rank 1, priority 1, score 90),
\* B(rank 2, priority 1, score 85), C(rank 3, priority 2, score 95).
IsScenario ==
    /\ Len(all_program_records) = 1
    /\ LET records == all_program_records[1][2]
       IN  /\ Len(records) = 3
           /\ records[1].priority = 1 /\ records[1].average_score = "90"
           /\ records[2].priority = 1 /\ records[2].average_score = "85"
           /\ records[3].priority = 2 /\ records[3].average_score = "95"

\* C5 (checked under SpecScenario): on the scenario the analysis admits in
\* the order of descending score, so the admitted list of X is [C, A] and B
\* is not admitted.
C5_ScenarioAdmitsByScore ==
    (pc = "analyzed" /\ funding_filter = None /\ IsScenario) =>
        /\ "X" \in DOMAIN final_admission_results
        /\ final_admission_results["X"] = <<ScenarioSnils[3], ScenarioSnils[1]>>

\* ---- process_funding_type on one funding list (SpecFunding)

MaxFundingRecords == 3

\* The numbers of places a funding list states.
FundingPlaces == {0, 1, 2, 3}

\* The applicants of a funding list: three applicants, one of them in two
\* spellings.
FundingSnils == {<<"1", "-", "A">>, <<"2">>, <<"2", "-">>, <<"3">>}

FundingRows == [snils : FundingSnils, consent : {"Da", "Net"}]

\* The records of one funding list of program X; the same applicant may
\* appear more than once (the group of a program that has two tables).
FundingLists ==
    {table_records("X", Budget, n, t) :
        n \in FundingPlaces, t \in SeqsOf(FundingRows, 1, MaxFundingRecords)}

\* The exclusion sets a call may find: normalised identifiers admitted
\* before.
FundingExclusions == SUBSET {normalize_snils(x) : x \in FundingSnils}

ProcessFundingType ==
    /\ fpc = "input"
    /\ LET r == process_funding_type(funding_records, funding_excluded_in)
       IN  /\ funding_admitted' = r.admitted
           /\ funding_excluded' = r.excluded
    /\ fpc' = "returned"
    /\ UNCHANGED <<funding_records, funding_excluded_in, normVars, dedupVars,
                   analyzerVars, cutoffVars, groupVars>>

NextFunding == ProcessFundingType

\* The positions of the list in ascending order, as a sequence.
Positions(records) == [i \in 1..Len(records) |-> i]

Selectable(records, i) ==
    normalize_snils(records[i].snils) \notin funding_excluded_in

\* The eager, non-excluded records, each identifier at its first such record.
EagerPositions(records) ==
    LET first_eager(i) ==
            /\ is_eager(records[i])
            /\ Selectable(records, i)
            /\ \A j \in 1..(i - 1) :
                   is_eager(records[j]) =>
                       ~SameApplicant(records[j], records[i])
    IN  SelectSeq(Positions(records), first_eager)

\* The non-eager, non-excluded records of identifiers that no eager position
\* selected, each identifier at its first such record.
FillPositions(records) ==
    LET eager == EagerPositions(records)
        first_fill(i) ==
            /\ ~is_eager(records[i])
            /\ Selectable(records, i)
            /\ \A k \in DOMAIN eager :
                   ~SameApplicant(records[eager[k]], records[i])
            /\ \A j \in 1..(i - 1) :
                   ~is_eager(records[j]) =>
                       ~SameApplicant(records[j], records[i])
    IN  SelectSeq(Positions(records), first_fill)

\* C15: when the eager, non-excluded, distinct identifiers of a funding list
\* number fewer than its places, the admitted list is those identifiers in
\* list order, followed by the non-eager, non-excluded identifiers not yet
\* selected, in list order, as many as the free places allow.
C15_FillRemainder ==
    (fpc = "returned"
        /\ Len(EagerPositions(funding_records))
              < funding_records[1].available_places) =>
        LET eager == EagerPositions(funding_records)
            fill == FillPositions(funding_records)
            free == funding_records[1].available_places - Len(eager)
            taken == eager \o SubSeq(fill, 1, Min(free, Len(fill)))
        IN  funding_admitted = [k \in DOMAIN taken |-> funding_records[taken[k]].snils]

\* Two places, applicant 3 excluded: the eager target takes one, the
\* non-eager record of applicant 3 is passed over, and the non-eager record
\* of applicant 2 fills the other.
C15_Witness ==
    /\ fpc = "returned"
    /\ funding_excluded_in = {<<"3">>}
    /\ Len(funding_records) = 3
    /\ funding_records[1].available_places = 2
    /\ funding_records[1].snils = <<"1", "-", "A">> /\ is_eager(funding_records[1])
    /\ funding_records[2].snils = <<"3">> /\ ~is_eager(funding_records[2])
    /\ funding_records[3].snils = <<"2", "-">> /\ ~is_eager(funding_records[3])
    /\ funding_admitted = <<<<"1", "-", "A">>, <<"2", "-">>>>

\* ------------------------------------------------------------------------
\* main.rs: generate_final_cutoff_analysis
\*
\* A key of final_admission_results is a text that the function takes apart:
\* here a sequence of pieces, each one character of a program name ("X",
\* "Y"), the underscore "_", or a whole funding-source name (Budget,
\* Commercial, Quota), which contains no underscore.

Quota == "quota"

\* The text of a program name as the analyser writes it into a key.
string_chars(program_name) == <<program_name>>

ends_with(key, suffix) ==
    /\ Len(key) >= Len(suffix)
    /\ SubSeq(key, Len(key) - Len(suffix) + 1, Len(key)) = suffix

\* program_key.rfind('_').unwrap_or(0), as a number of pieces before the
\* last underscore (0 when there is none or the key starts with it).
rfind_underscore(key) ==
    LET found == {i \in DOMAIN key : key[i] = "_"}
    IN  IF found = {} THEN 0
        ELSE (CHOOSE i \in found : \A j \in found : j <= i) - 1

\* The program name and funding source a key resolves to; None for a key
\* that is skipped as malformed.
parse_program_key(key) ==
    IF ends_with(key, <<"_", Budget>>)
    THEN Some([program_name |-> SubSeq(key, 1, Len(key) - 2),
               funding_source |-> <<Budget>>])
    ELSE IF ends_with(key, <<"_", Commercial>>)
    THEN Some([program_name |-> SubSeq(key, 1, Len(key) - 2),
               funding_source |-> <<Commercial>>])
    ELSE LET last_underscore_pos == rfind_underscore(key)
         IN  IF last_underscore_pos = 0 THEN None
             ELSE Some([program_name |-> SubSeq(key, 1, last_underscore_pos),
                        funding_source |->
                            SubSeq(key, last_underscore_pos + 2, Len(key))])

\* The records of every entry named program_name whose funding source is
\* funding_source, in input order, from entry i on.
RECURSIVE matching_records_from(_, _, _, _)
matching_records_from(all, i, program_name, funding_source) ==
    IF i > Len(all) THEN <<>>
    ELSE LET has_funding(record) ==
                 string_chars(record.funding_source) = funding_source
         IN  (IF string_chars(all[i][1]) = program_name
              THEN SelectSeq(all[i][2], has_funding) ELSE <<>>)
             \o matching_records_from(all, i + 1, program_name, funding_source)

\* sort_by_key(|r| r.rank), a stable sort: the records in ascending rank,
\* those of one rank in the order they had.
RECURSIVE sort_by_key_rank(_)
sort_by_key_rank(records) ==
    IF records = <<>> THEN <<>>
    ELSE LET last == records[Len(records)]
             front == sort_by_key_rank(SubSeq(records, 1, Len(records) - 1))
             not_after(record) == record.rank <= last.rank
             after(record) == record.rank > last.rank
         IN  SelectSeq(front, not_after) \o <<last>> \o SelectSeq(front, after)

\* f64::MAX, the start value of lowest_score: above every score, in tenths.
f64_MAX == 1000000

\* The inner loop of the cutoff computation: the records of one admitted
\* identifier, from record j on.
RECURSIVE lowest_over_records(_, _, _, _)
lowest_over_records(admitted_snils, records, j, lowest_score) ==
    IF j > Len(records) THEN lowest_score
    ELSE LET score == get_numeric_score(records[j])
         IN  lowest_over_records(
                 admitted_snils, records, j + 1,
                 IF /\ normalize_snils(records[j].snils)
                          = normalize_snils(admitted_snils)
                    /\ score # None
                 THEN Min(lowest_score, score[1])
                 ELSE lowest_score)

RECURSIVE lowest_over_admitted(_, _, _, _)
lowest_over_admitted(admitted_snils_list, i, records, lowest_score) ==
    IF i > Len(admitted_snils_list) THEN lowest_score
    ELSE lowest_over_admitted(
             admitted_snils_list, i + 1, records,
             lowest_over_records(admitted_snils_list[i], records, 1,
                                 lowest_score))

\* A cutoff that counts an unparseable score as 0.
cutoff_score_unparsed_zero(admitted_snils_list, all_matching_records) ==
    IF \E k \in DOMAIN admitted_snils_list :
          \E j \in DOMAIN all_matching_records :
              /\ normalize_snils(all_matching_records[j].snils)
                    = normalize_snils(admitted_snils_list[k])
              /\ get_numeric_score(all_matching_records[j]) = None
    THEN 0
    ELSE LET lowest_score == lowest_over_admitted(admitted_snils_list, 1,
                                                  all_matching_records, f64_MAX)
         IN  IF lowest_score = f64_MAX THEN 0 ELSE lowest_score

\* The cutoff score of one offering, in tenths.
cutoff_score(admitted_snils_list, all_matching_records) ==
    IF admitted_snils_list # <<>>
    THEN LET lowest_score == lowest_over_admitted(admitted_snils_list, 1,
                                                  all_matching_records, f64_MAX)
         IN  IF lowest_score = f64_MAX THEN 0 ELSE lowest_score
    ELSE 0

\* A classification that does not ask for a positive cutoff.
admission_status_any_cutoff(is_admitted, target_score, cutoff) ==
    IF is_admitted THEN "Admitted"
    ELSE IF target_score > cutoff
    THEN "Admitted_ByScore_NotByPriority"
    ELSE "Not_Admitted"

\* The status written for the target on one offering.
admission_status(is_admitted, target_score, cutoff) ==
    IF is_admitted THEN "Admitted"
    ELSE IF target_score > cutoff /\ cutoff > 0
    THEN "Admitted_ByScore_NotByPriority"
    ELSE "Not_Admitted"

\* iter().position(..).map(|pos| pos + 1).unwrap_or(0)
position_of_target(admitted_snils_list) ==
    LET found == {k \in DOMAIN admitted_snils_list :
                     normalize_snils(admitted_snils_list[k])
                         = normalize_snils(target_snils)}
    IN  IF found = {} THEN 0
        ELSE CHOOSE k \in found : \A j \in found : k <= j

\* What the function writes for one key that resolved to an offering with
\* records: the offering, its places and cutoff, and, when the target has a
\* record in it, the target's score, status and position.
cutoff_row(offering, admitted_snils_list, all_matching_records) ==
    LET is_admitted == normalize_snils(target_snils)
                           \in normalized_set(admitted_snils_list)
        cutoff == cutoff_score(admitted_snils_list, all_matching_records)
        is_target(record) ==
            normalize_snils(record.snils) = normalize_snils(target_snils)
        target_records == SelectSeq(all_matching_records, is_target)
        target_score == IF get_numeric_score(target_records[1]) = None THEN 0
                        ELSE get_numeric_score(target_records[1])[1]
    IN  [program_name |-> offering.program_name,
         funding_source |-> offering.funding_source,
         available_places |-> all_matching_records[1].available_places,
         cutoff_score |-> cutoff,
         target |->
             IF target_records = <<>> THEN None
             ELSE Some([target_score |-> target_score,
                        admission_status |->
                            admission_status(is_admitted, target_score, cutoff),
                        position |->
                            IF is_admitted
                            THEN position_of_target(admitted_snils_list)
                            ELSE 0])]

\* The rows of generate_final_cutoff_analysis by key: a key that does not
\* resolve, or resolves to an offering without records, gets none.
generate_final_cutoff_analysis(results, all) ==
    LET records_of(key) ==
            IF parse_program_key(key) = None THEN <<>>
            ELSE sort_by_key_rank(
                     matching_records_from(
                         all, 1, parse_program_key(key)[1].program_name,
                         parse_program_key(key)[1].funding_source))
        written == {key \in DOMAIN results : records_of(key) # <<>>}
    IN  [key \in written |->
            cutoff_row(parse_program_key(key)[1], results[key], records_of(key))]

\* ---- the driver of generate_final_cutoff_analysis (SpecCutoff): the
\* function is given the program records, the target and an analysis, of
\* which it reads final_admission_results.

GenerateFinalCutoffAnalysis ==
    /\ cpc = "input"
    /\ cutoff_report' =
          generate_final_cutoff_analysis(final_admission_results,
                                         all_program_records)
    /\ cpc' = "written"
    /\ UNCHANGED <<normVars, dedupVars, analyzerVars, fundingVars, groupVars>>

NextCutoff == GenerateFinalCutoffAnalysis

MaxCutoffRecords == 2
MaxAdmitted == 2

\* The tables of program X: budget places and quota places.
CutoffEntries ==
    {<<"X", table_records("X", f, 1, t)>> :
        f \in {Budget, Quota},
        t \in Tables([snils : FundingSnils, consent : {"Da"}], MaxCutoffRecords)}

\* One table, or a table followed by a budget table.
CutoffInputs ==
    {<<e>> : e \in CutoffEntries}
        \cup {<<e1, e2>> :
                 e1 \in CutoffEntries,
                 e2 \in {e \in CutoffEntries : e[2][1].funding_source = Budget}}

\* Keys of the result map: program and funding joined by an underscore, a
\* bare program name, and a key that starts with the underscore.
CutoffKeys ==
    {<<"X", "_", Budget>>, <<"X", "_", Commercial>>, <<"X", "_", Quota>>,
     <<"X">>, <<"_", Quota>>}

\* A result map with one key and any admitted list.
CutoffResults ==
    {[k \in {key} |-> list] :
        key \in CutoffKeys, list \in SeqsOf(FundingSnils, 0, MaxAdmitted)}

CutoffTargets == {<<"1", "a">>, <<"2">>}

\* ---- claims about the cutoff analysis (SpecCutoff)

\* The records of the offering a written row names.
RowRecords(row) == OfferingRecords(row.program_name[1], row.funding_source[1])

\* The parseable scores of the records of the row's offering whose
\* identifier is in the admitted list.
AdmittedScores(key) ==
    {get_numeric_score(r)[1] :
        r \in {q \in RowRecords(cutoff_report[key]) :
                  /\ normalize_snils(q.snils)
                        \in normalized_set(final_admission_results[key])
                  /\ get_numeric_score(q) # None}}

\* C18: the cutoff of an offering is the least parseable score among the
\* records of the offering whose normalised identifier is in its admitted
\* list, and 0.0 when there is no such score.
C18_CutoffIsLowestAdmittedScore ==
    cpc = "written" =>
        \A key \in DOMAIN cutoff_report :
            cutoff_report[key].cutoff_score =
                IF AdmittedScores(key) = {} THEN 0
                ELSE CHOOSE m \in AdmittedScores(key) :
                        \A x \in AdmittedScores(key) : m <= x

\* The admitted list names applicant 3, whose score does not parse, and
\* applicant 2 without the dash the record has: the cutoff is 4.5.
C18_Witness ==
    /\ cpc = "written"
    /\ all_program_records =
          <<<<"X", table_records("X", Budget, 1,
                                 <<[snils |-> <<"2", "-">>, consent |-> "Da"],
                                   [snils |-> <<"3">>, consent |-> "Da"]>>)>>>>
    /\ final_admission_results =
          [k \in {<<"X", "_", Budget>>} |-> <<<<"3">>, <<"2">>>>]
    /\ cutoff_report[<<"X", "_", Budget>>].cutoff_score = 45

TargetInList(key) ==
    \E k \in DOMAIN final_admission_results[key] :
        normalize_snils(final_admission_results[key][k])
            = normalize_snils(target_snils)

\* C19: a row carries a status for the target exactly when the target has a
\* record in the offering; the status is Admitted iff the target is in the
\* admitted list, else Admitted_ByScore_NotByPriority iff the target's
\* score is above a positive cutoff, else Not_Admitted; the position of an
\* admitted target is the first place of the list that holds the target.
C19_StatusClassification ==
    cpc = "written" =>
        \A key \in DOMAIN cutoff_report :
            LET row == cutoff_report[key]
                list == final_admission_results[key]
                target_records ==
                    {r \in RowRecords(row) :
                        normalize_snils(r.snils) = normalize_snils(target_snils)}
                by_score == /\ row.target[1].target_score > row.cutoff_score
                            /\ row.cutoff_score > 0
            IN  /\ (row.target # None) <=> (target_records # {})
                /\ row.target # None =>
                      /\ row.target[1].target_score \in
                            {IF get_numeric_score(r) = None THEN 0
                             ELSE get_numeric_score(r)[1] : r \in target_records}
                      /\ row.target[1].admission_status =
                            IF TargetInList(key) THEN "Admitted"
                            ELSE IF by_score
                            THEN "Admitted_ByScore_NotByPriority"
                            ELSE "Not_Admitted"
                      /\ TargetInList(key) =>
                            LET position == row.target[1].position
                            IN  /\ position \in DOMAIN list
                                /\ normalize_snils(list[position])
                                      = normalize_snils(target_snils)
                                /\ \A j \in 1..(position - 1) :
                                       normalize_snils(list[j])
                                           # normalize_snils(target_snils)

\* The target, with a score of 90, is outside a list whose cutoff is 85.
C19_Witness ==
    /\ cpc = "written"
    /\ \E key \in DOMAIN cutoff_report :
          /\ cutoff_report[key].target # None
          /\ cutoff_report[key].target[1].admission_status
                = "Admitted_ByScore_NotByPriority"
          /\ cutoff_report[key].target[1].target_score = 900
          /\ cutoff_report[key].cutoff_score = 850
          /\ cutoff_report[key].target[1].position = 0

\* The target is second in the admitted list.
C19_WitnessAdmitted ==
    /\ cpc = "written"
    /\ \E key \in DOMAIN cutoff_report :
          /\ cutoff_report[key].target # None
          /\ cutoff_report[key].target[1].admission_status = "Admitted"
          /\ cutoff_report[key].target[1].position = 2

\* The target is outside an empty list.
C19_WitnessNotAdmitted ==
    /\ cpc = "written"
    /\ \E key \in DOMAIN cutoff_report :
          /\ cutoff_report[key].target # None
          /\ cutoff_report[key].target[1].admission_status = "Not_Admitted"
          /\ final_admission_results[key] = <<>>

\* ---- claims about the popularity ranking and the chance analysis

TargetInInput ==
    \E i \in DOMAIN all_program_records :
        \E k \in DOMAIN all_program_records[i][2] :
            normalize_snils(all_program_records[i][2][k].snils)
                = normalize_snils(target_snils)

\* C11: when the target identifier matches no input record the analysis
\* returns target_applicant_found = FALSE and no target results, and
\* analyze_target_chances returns, without aborting, empty admitted and
\* rejected lists and the not-found recommendation.
C11_NotFoundOutcome ==
    (pc \in {"analyzed", "advised", "aborted"} /\ ~TargetInInput) =>
        /\ target_applicant_found = FALSE
        /\ target_applicant_results = <<>>
        /\ pc # "aborted"
        /\ pc = "advised" =>
              chance_analysis =
                  Some([programs_admitted_to |-> <<>>,
                        programs_rejected_from |-> <<>>,
                        final_recommendation |->
                            [kind |-> "not_found", programs |-> <<>>]])

\* The target is in no list, two programs are ranked, and the chance
\* analysis has returned the not-found recommendation.
C11_Witness ==
    /\ pc = "advised"
    /\ ~TargetInInput
    /\ Len(program_popularities) = 2
    /\ chance_analysis # None
    /\ chance_analysis[1].final_recommendation.kind = "not_found"

\* The top subset of a ranked program: its first min(2 x places, count)
\* eager records.
TopSubset(popularity) ==
    SubSeq(popularity.eager_applicants, 1,
           Min(popularity.available_places * 2,
               Len(popularity.eager_applicants)))

RECURSIVE SumPriority(_)
SumPriority(records) ==
    IF records = <<>> THEN 0
    ELSE Head(records).priority + SumPriority(Tail(records))

\* The mean stated priority over the top subset, as a quotient (0 when the
\* subset is empty).
TopCandidatesAveragePriority(popularity) ==
    IF TopSubset(popularity) = <<>> THEN [num |-> 0, den |-> 1]
    ELSE [num |-> SumPriority(TopSubset(popularity)),
          den |-> Len(TopSubset(popularity))]

\* C12: program_popularities is in ascending order of the mean stated
\* priority of the top-subset eager records.
C12_OrderedByTopPriority ==
    pc = "analyzed" =>
        \A i, j \in DOMAIN program_popularities :
            i < j =>
                LET a == TopCandidatesAveragePriority(program_popularities[i])
                    b == TopCandidatesAveragePriority(program_popularities[j])
                IN  a.num * b.den <= b.num * a.den

\* C13: the popularity ratio reported for an offering with 0 places is 0.0.
C13_ZeroPlacesRatioIsZero ==
    pc = "analyzed" =>
        \A i \in DOMAIN program_popularities :
            program_popularities[i].available_places = 0 =>
                /\ program_popularities[i].applications_per_place.num = 0
                /\ program_popularities[i].applications_per_place.den # 0

\* C14: analyze_all_programs followed by analyze_target_chances never
\* aborts.
C14_ChanceAnalysisIsTotal ==
    pc # "aborted"

\* ---- claims about the unified analysis (AdmissionAnalyzer::new)

UnifiedRun == pc = "analyzed" /\ funding_filter = None

AllRecords ==
    UNION {Range(all_program_records[i][2]) : i \in DOMAIN all_program_records}

\* C16: in the unified analysis an applicant none of whose records is eager
\* appears in no admitted list.
C16_NonEagerInvisible ==
    UnifiedRun =>
        \A s \in AdmittedSlots :
            \E r \in AllRecords :
                /\ normalize_snils(r.snils) = AdmittedAt(s)
                /\ is_eager(r)

\* C20: final_admission_results has one entry per simulated offering, which
\* generate_final_cutoff_analysis resolves to the offering's program name
\* and funding source: every key resolves to an offering that has records,
\* and every offering that has records is the offering of some key.
C20_KeysAreOfferings ==
    UnifiedRun =>
        /\ \A key \in DOMAIN final_admission_results :
              LET offering == parse_program_key(string_chars(key))
              IN  /\ offering # None
                  /\ \E p \in ProgramNames, f \in FundingSources :
                         /\ offering[1].program_name = string_chars(p)
                         /\ offering[1].funding_source = string_chars(f)
                         /\ OfferingRecords(p, f) # {}
        /\ \A p \in ProgramNames, f \in FundingSources :
              OfferingRecords(p, f) # {} =>
                  \E key \in DOMAIN final_admission_results :
                      parse_program_key(string_chars(key)) =
                          Some([program_name |-> string_chars(p),
                                funding_source |-> string_chars(f)])

\* C17: in the unified analysis an applicant admitted to a program has no
\* eager application with a lower priority number in an offering that
\* still has room: an offering whose program has, at the end of the run,
\* fewer admitted applicants than the offering has places had room all
\* along. Stated for the inputs in which every table has a place.
C17_AdmittedToMostPreferred ==
    (UnifiedRun /\ EveryTableHasPlaces) =>
        \A s \in AdmittedSlots :
            \A r, q \in AllRecords :
                ( /\ normalize_snils(r.snils) = AdmittedAt(s)
                  /\ r.program_name = s[1]
                  /\ normalize_snils(q.snils) = AdmittedAt(s)
                  /\ is_eager(q)
                  /\ q.program_name \in DOMAIN final_admission_results
                  /\ q.priority < r.priority )
                => Len(final_admission_results[q.program_name])
                       >= q.available_places

\* ---- group_by_program_and_funding_public on its own (SpecGroup)

GroupByProgramAndFundingPublic ==
    /\ gpc = "input"
    /\ grouped_map' = group_by_program_and_funding(all_program_records)
    /\ gpc' = "grouped"
    /\ UNCHANGED <<normVars, dedupVars, analyzerVars, fundingVars, cutoffVars>>

NextGroup == GroupByProgramAndFundingPublic

MaxGroupRecords == 2

\* The records a pair may hold: the target and another applicant, under
\* either funding source (the records of one pair need not agree on it).
GroupRecords ==
    {table_records("X", f, 1, <<[snils |-> x, consent |-> "Da"]>>)[1] :
        f \in FundingSources, x \in {<<"1", "-", "A">>, <<"2">>}}

\* A pair of the input: a program name and a record list, which may be empty
\* and may hold a record twice.
GroupEntries ==
    {<<p, records>> :
        p \in ProgramNames, records \in SeqsOf(GroupRecords, 0, MaxGroupRecords)}

\* One pair or two.
GroupInputs ==
    {<<e>> : e \in GroupEntries} \cup {<<e1, e2>> : e1, e2 \in GroupEntries}

\* The records of funding source f in the pairs named p, pair after pair,
\* each pair's records in their order, from pair i on.
RECURSIVE PairRecords(_, _, _)
PairRecords(i, p, f) ==
    IF i > Len(all_program_records) THEN <<>>
    ELSE LET has_funding(record) == record.funding_source = f
         IN  (IF all_program_records[i][1] = p
              THEN SelectSeq(all_program_records[i][2], has_funding)
              ELSE <<>>)
             \o PairRecords(i + 1, p, f)

RECURSIVE SumLen(_)
SumLen(lists) ==
    IF lists = <<>> THEN 0 ELSE Len(Head(lists)) + SumLen(Tail(lists))

\* The number of records in all groups of the map.
RECURSIVE GroupedCount(_)
GroupedCount(keys) ==
    IF keys = {} THEN 0
    ELSE LET k == CHOOSE x \in keys : TRUE
         IN  Len(grouped_map[k[1]][k[2]]) + GroupedCount(keys \ {k})

GroupKeys ==
    UNION {{<<p, f>> : f \in DOMAIN grouped_map[p]} : p \in DOMAIN grouped_map}

\* C22: the map returned by group_by_program_and_funding_public partitions
\* the input: the group of (program, funding) holds exactly the records of
\* that funding source from the pairs of that name, unaltered and in input
\* order; there is a group only where there is such a record (a pair with
\* no records makes none); and the groups hold as many records as the input.
C22_GroupingPartitionsInput ==
    gpc = "grouped" =>
        /\ \A p \in ProgramNames : \A f \in FundingSources :
              IF PairRecords(1, p, f) = <<>>
              THEN p \in DOMAIN grouped_map => f \notin DOMAIN grouped_map[p]
              ELSE /\ p \in DOMAIN grouped_map
                   /\ f \in DOMAIN grouped_map[p]
                   /\ grouped_map[p][f] = PairRecords(1, p, f)
        /\ DOMAIN grouped_map \subseteq ProgramNames
        /\ \A p \in DOMAIN grouped_map :
              /\ DOMAIN grouped_map[p] \subseteq FundingSources
              /\ DOMAIN grouped_map[p] # {}
        /\ GroupedCount(GroupKeys)
              = SumLen([i \in DOMAIN all_program_records |->
                           all_program_records[i][2]])

\* Two pairs named X, the first holding a commercial record and then a
\* budget record, the second a budget record: the budget group holds the
\* two budget records in input order, the commercial group the other.
C22_Witness ==
    /\ gpc = "grouped"
    /\ Len(all_program_records) = 2
    /\ all_program_records[1][1] = "X" /\ all_program_records[2][1] = "X"
    /\ Len(all_program_records[1][2]) = 2 /\ Len(all_program_records[2][2]) = 1
    /\ all_program_records[1][2][1].funding_source = Commercial
    /\ all_program_records[1][2][2].funding_source = Budget
    /\ all_program_records[2][2][1].funding_source = Budget
    /\ all_program_records[1][2][2] # all_program_records[2][2][1]
    /\ grouped_map =
          [p \in {"X"} |->
              [f \in {Budget, Commercial} |->
                  IF f = Budget
                  THEN <<all_program_records[1][2][2], all_program_records[2][2][1]>>
                  ELSE <<all_program_records[1][2][1]>>]]

\* A pair named Y without records precedes a pair named X: the map has no
\* entry for Y.
C22_WitnessEmptyPair ==
    /\ gpc = "grouped"
    /\ Len(all_program_records) = 2
    /\ all_program_records[1] = <<"Y", <<>>>>
    /\ all_program_records[2][1] = "X"
    /\ DOMAIN grouped_map = {"X"}

\* ---- further claims about process_funding_type (SpecFunding)

\* An entry of the returned list is written as some record of the list
\* writes its identifier: it is the entry of an eager record when an eager
\* record is written so, and of a non-eager record otherwise.
EagerEntry(k) ==
    \E i \in DOMAIN funding_records :
        /\ funding_records[i].snils = funding_admitted[k]
        /\ is_eager(funding_records[i])

NonEagerEntry(k) ==
    /\ \E i \in DOMAIN funding_records :
          funding_records[i].snils = funding_admitted[k]
    /\ ~EagerEntry(k)

\* C24: a returned list holds a non-eager record only if it holds every
\* eager identifier of the funding list that was not excluded on entry, and
\* its eager entries all come before its non-eager entries.
C24_NonEagerOnlyAfterAllEager ==
    fpc = "returned" =>
        /\ (\E k \in DOMAIN funding_admitted : NonEagerEntry(k)) =>
              \A i \in DOMAIN funding_records :
                  (is_eager(funding_records[i]) /\ Selectable(funding_records, i))
                      => normalize_snils(funding_records[i].snils)
                             \in normalized_set(funding_admitted)
        /\ \A k1, k2 \in DOMAIN funding_admitted :
              (NonEagerEntry(k1) /\ EagerEntry(k2)) => k2 < k1

\* Three places: the non-eager record of applicant 2 heads the list, the
\* eager records of the target and of applicant 3 follow; the two eager
\* identifiers are admitted first and applicant 2 fills the third place.
C24_Witness ==
    /\ fpc = "returned"
    /\ funding_excluded_in = {}
    /\ Len(funding_records) = 3
    /\ funding_records[1].available_places = 3
    /\ funding_records[1].snils = <<"2">> /\ ~is_eager(funding_records[1])
    /\ funding_records[2].snils = <<"1", "-", "A">> /\ is_eager(funding_records[2])
    /\ funding_records[3].snils = <<"3">> /\ is_eager(funding_records[3])
    /\ funding_admitted = <<<<"1", "-", "A">>, <<"3">>, <<"2">>>>

\* The normalised identifiers of the funding list that are not in the
\* exclusion set on entry.
FundingCandidates ==
    {normalize_snils(funding_records[i].snils) : i \in DOMAIN funding_records}
        \ funding_excluded_in

\* C28: for a funding list that states c >= 1 places process_funding_type
\* returns exactly min(c, number of distinct normalised identifiers of the
\* list not excluded on entry) identifiers, all distinct; on return the
\* exclusion set holds the normalised form of every returned identifier and
\* everything it held before.
C28_NoSeatLeftEmpty ==
    (fpc = "returned" /\ funding_records[1].available_places >= 1) =>
        /\ Len(funding_admitted)
              = Min(funding_records[1].available_places,
                    Cardinality(FundingCandidates))
        /\ Cardinality(normalized_set(funding_admitted)) = Len(funding_admitted)
        /\ normalized_set(funding_admitted) \subseteq funding_excluded
        /\ funding_excluded_in \subseteq funding_excluded

\* Three places, applicant 3 excluded on entry: of the records of applicant
\* 3 (eager), the target (eager) and applicant 2 (not eager) the two
\* candidates are returned and join applicant 3 in the exclusion set.
C28_Witness ==
    /\ fpc = "returned"
    /\ funding_excluded_in = {<<"3">>}
    /\ Len(funding_records) = 3
    /\ funding_records[1].available_places = 3
    /\ funding_records[1].snils = <<"3">> /\ is_eager(funding_records[1])
    /\ funding_records[2].snils = <<"1", "-", "A">> /\ is_eager(funding_records[2])
    /\ funding_records[3].snils = <<"2", "-">> /\ ~is_eager(funding_records[3])
    /\ funding_admitted = <<<<"1", "-", "A">>, <<"2", "-">>>>
    /\ funding_excluded = {<<"3">>, <<"1", "A">>, <<"2">>}

\* The position of the record that an eager entry of the returned list
\* came from: the first eager record of an admitted identifier.
AdmittedEagerAt(j) ==
    /\ is_eager(funding_records[j])
    /\ normalize_snils(funding_records[j].snils)
          \in normalized_set(funding_admitted)
    /\ \A h \in 1..(j - 1) :
           is_eager(funding_records[h])
               => ~SameApplicant(funding_records[h], funding_records[j])

\* C29: when process_funding_type admits the eager record at position j of
\* the list, every eager record at an earlier position is admitted in the
\* same call, or its identifier was excluded on entry, or it repeats an
\* identifier of a record before it.
C29_RankOrderFairness ==
    fpc = "returned" =>
        \A j \in DOMAIN funding_records :
            AdmittedEagerAt(j) =>
                \A i \in 1..(j - 1) :
                    is_eager(funding_records[i]) =>
                        \/ normalize_snils(funding_records[i].snils)
                               \in normalized_set(funding_admitted)
                        \/ ~Selectable(funding_records, i)
                        \/ \E h \in 1..(i - 1) :
                               SameApplicant(funding_records[h], funding_records[i])

\* Two places, applicant 2 excluded on entry: the eager records of the
\* target, of applicant 2 and of applicant 3 stand in this order; the third
\* is admitted, so is the first, and the second was excluded.
C29_Witness ==
    /\ fpc = "returned"
    /\ funding_excluded_in = {<<"2">>}
    /\ Len(funding_records) = 3
    /\ funding_records[1].available_places = 2
    /\ funding_records[1].snils = <<"1", "-", "A">>
    /\ funding_records[2].snils = <<"2", "-">>
    /\ funding_records[3].snils = <<"3">>
    /\ \A i \in 1..3 : is_eager(funding_records[i])
    /\ AdmittedEagerAt(3)
    /\ funding_admitted = <<<<"1", "-", "A">>, <<"3">>>>

\* ---- claims about the top subset of calculate_program_popularity

\* The sets of k positions of records that hold its k smallest rank values.
RankMinimalSubsets(records, k) ==
    {S \in SUBSET DOMAIN records :
        /\ Cardinality(S) = k
        /\ \A i \in S : \A j \in DOMAIN records \ S :
               records[i].rank <= records[j].rank}

\* The parseable scores at the positions S of records: their sum and number.
RECURSIVE ScoreSum(_, _)
ScoreSum(records, S) ==
    IF S = {} THEN 0
    ELSE LET i == CHOOSE x \in S : TRUE
             score == get_numeric_score(records[i])
         IN  (IF score = None THEN 0 ELSE score[1]) + ScoreSum(records, S \ {i})

ScoreCount(records, S) ==
    Cardinality({i \in S : get_numeric_score(records[i]) # None})

\* C23: the top subset behind top_third_average_score is made of the
\* min(2 x available_places, number of eager records) eager records with the
\* smallest ranks of the offering: the reported average is the mean of the
\* parseable scores of such a subset (0.0 when none parses).
C23_TopSubsetHasSmallestRanks ==
    pc = "analyzed" =>
        \A n \in DOMAIN program_popularities :
            LET popularity == program_popularities[n]
                eager == popularity.eager_applicants
                k == Min(popularity.available_places * 2, Len(eager))
                average == popularity.top_third_average_score
            IN  \E S \in RankMinimalSubsets(eager, k) :
                    IF ScoreCount(eager, S) = 0
                    THEN average.num = 0 /\ average.den # 0
                    ELSE average.num * ScoreCount(eager, S)
                             = ScoreSum(eager, S) * average.den

\* ---- claims about the order of the passes of the unified analysis

\* The funding lists of the input, by program name and funding source.
InputGroups == group_by_program_and_funding(all_program_records)

\* The program processed at place i of program_popularities.
ProgramAt(i) == program_popularities[i].program_name

\* The normalised identifiers admitted to program p.
AdmittedTo(p) == normalized_set(final_admission_results[p])

\* Whether the applicant of normalised identifier a heads funding list f of
\* program q with an eager record, the list stating at least one place.
HeadsList(a, q, f) ==
    /\ q \in DOMAIN InputGroups
    /\ f \in DOMAIN InputGroups[q]
    /\ normalize_snils(InputGroups[q][f][1].snils) = a
    /\ is_eager(InputGroups[q][f][1])
    /\ InputGroups[q][f][1].available_places >= 1

\* C21, as the specification words it: in the unified analysis exclusion is scoped to the program:
\* an identifier admitted to one program remains a candidate in every other
\* program, so where its eager record heads the budget or the commercial
\* list of another program (with a place) it is admitted there too.
C21_ExclusionIsProgramScoped ==
    UnifiedRun =>
        \A p, q \in DOMAIN final_admission_results :
            p # q =>
                \A a \in AdmittedTo(p) : \A f \in {Budget, Commercial} :
                    HeadsList(a, q, f) => a \in AdmittedTo(q)

\* C21, as the code has it: in the unified analysis exclusion is global: an identifier
\* admitted to one program is admitted to no program processed later,
\* through neither its budget nor its commercial pass.
C21_ExclusionIsGlobal ==
    UnifiedRun =>
        \A i, j \in DOMAIN program_popularities :
            i < j => AdmittedTo(ProgramAt(i)) \cap AdmittedTo(ProgramAt(j)) = {}

\* The target is admitted to the program processed first; the target's
\* eager record heads the budget list of the program processed next, which
\* has a place and admits nobody.
C21_Witness ==
    /\ UnifiedRun
    /\ Len(program_popularities) = 2
    /\ normalize_snils(target_snils) \in AdmittedTo(ProgramAt(1))
    /\ HeadsList(normalize_snils(target_snils), ProgramAt(2), Budget)
    /\ final_admission_results[ProgramAt(2)] = <<>>

\* ---- claims about the processing order of the round-based simulators

\* Whether the applicant of normalised identifier a is eligible and within
\* capacity in program q: an eager record of a stands, in a funding list of
\* q that the run simulates, at a position no greater than the places the
\* list states, and the run does not start with a excluded.
EligibleWithinCapacity(a, q) ==
    /\ a \notin budget_excluded_snils
    /\ q \in DOMAIN InputGroups
    /\ \E f \in DOMAIN InputGroups[q] \cap SimulatedFundings :
          \E k \in DOMAIN InputGroups[q][f] :
              /\ k <= InputGroups[q][f][1].available_places
              /\ is_eager(InputGroups[q][f][k])
              /\ normalize_snils(InputGroups[q][f][k].snils) = a

AdmittedBefore(i) == UNION {AdmittedTo(ProgramAt(h)) : h \in 1..(i - 1)}

\* C25: both simulators process the programs in the order of
\* program_popularities: an identifier eligible and within capacity in two
\* programs is admitted to the one that comes earlier (unless a program
\* before both admitted it), and an identifier admitted to a program is
\* admitted to no program that comes later in the same run.
C25_ProcessedInPopularityOrder ==
    pc = "analyzed" =>
        \A i, j \in DOMAIN program_popularities :
            i < j =>
                /\ \A a \in {normalize_snils(r.snils) : r \in AllRecords} :
                      ( /\ EligibleWithinCapacity(a, ProgramAt(i))
                        /\ EligibleWithinCapacity(a, ProgramAt(j))
                        /\ a \notin AdmittedBefore(i) )
                      => a \in AdmittedTo(ProgramAt(i))
                /\ AdmittedTo(ProgramAt(i)) \cap AdmittedTo(ProgramAt(j)) = {}

\* The funding list f of program q, empty when q has none.
FundingList(q, f) ==
    IF q \in DOMAIN InputGroups /\ f \in DOMAIN InputGroups[q]
    THEN InputGroups[q][f] ELSE <<>>

\* What the budget pass of the program at place j selects: the exclusion set
\* it finds holds the identifiers admitted to the programs before it.
BudgetPass(j) ==
    process_funding_type(FundingList(ProgramAt(j), Budget),
                         AdmittedBefore(j)).admitted

\* C26: in the unified analysis the budget pass of a program runs before
\* its commercial pass: the program's admitted list starts with what the
\* budget pass selects, and an identifier that the budget pass selects and
\* that is also in the commercial list is admitted once, as the budget list
\* writes it, before every entry of the commercial pass.
C26_BudgetPassFirst ==
    UnifiedRun =>
        \A j \in DOMAIN program_popularities :
            LET admitted == final_admission_results[ProgramAt(j)]
                budget == BudgetPass(j)
                commercial == FundingList(ProgramAt(j), Commercial)
            IN  /\ Len(budget) <= Len(admitted)
                /\ SubSeq(admitted, 1, Len(budget)) = budget
                /\ \A k \in DOMAIN budget :
                      normalize_snils(budget[k])
                              \in {normalize_snils(r.snils) : r \in Range(commercial)}
                          => \A n \in DOMAIN admitted :
                                 normalize_snils(admitted[n]) = normalize_snils(budget[k])
                                     => n = k

\* Program X, one budget place and one commercial place: applicant 2 heads
\* both lists (written with a dash in the commercial one) and the target
\* follows in the commercial list; applicant 2 is admitted under budget, as
\* the budget list writes it, and the target takes the commercial place.
C26_Witness ==
    /\ UnifiedRun
    /\ Len(all_program_records) = 2
    /\ all_program_records[1][1] = "X" /\ all_program_records[2][1] = "X"
    /\ Len(all_program_records[1][2]) = 1 /\ Len(all_program_records[2][2]) = 2
    /\ all_program_records[1][2][1].funding_source = Budget
    /\ all_program_records[2][2][1].funding_source = Commercial
    /\ all_program_records[1][2][1].available_places = 1
    /\ all_program_records[2][2][1].available_places = 1
    /\ all_program_records[1][2][1].snils = <<"2">>
    /\ all_program_records[2][2][1].snils = <<"2", "-">>
    /\ all_program_records[2][2][2].snils = <<"1", "-", "A">>
    /\ \A r \in AllRecords : is_eager(r)
    /\ final_admission_results = [p \in {"X"} |-> <<<<"2">>, <<"1", "-", "A">>>>]

\* ---- claims about the determinism of the analysis

\* C27: analyze_all_programs is deterministic: whatever a second run on the
\* same analyser and input returns (in whatever order the maps yield their
\* programs and funding types) has the program_popularities order and the
\* final_admission_results that the first run returned.
C27_AnalysisIsDeterministic ==
    pc = "analyzed" =>
        \A analysis \in analyze_all_programs(all_program_records) :
            /\ analysis.program_popularities = program_popularities
            /\ analysis.final_admission_results = final_admission_results

\* ---- claims about the target's results

\* Whether entry i is the first input entry of its program name.
FirstEntryOfItsName(i) ==
    \A h \in 1..(i - 1) : all_program_records[h][1] # all_program_records[i][1]

\* The program names in whose first input entry the target has a record.
TargetPrograms ==
    {all_program_records[i][1] :
        i \in {n \in DOMAIN all_program_records :
                  /\ FirstEntryOfItsName(n)
                  /\ \E r \in Range(all_program_records[n][2]) :
                         normalize_snils(r.snils) = normalize_snils(target_snils)}}

\* C30: target_applicant_results holds one entry for each program name in
\* whose first input entry the target has a record, and no other; the flag
\* of an entry is true iff the program has a result list that holds the
\* normalised target; analyze_target_chances puts the names with a true
\* flag into programs_admitted_to and the others into
\* programs_rejected_from: the two lists are disjoint and hold every name.
C30_TargetResultsPartition ==
    pc \in {"analyzed", "advised", "aborted"} =>
        LET names == [k \in DOMAIN target_applicant_results |->
                         target_applicant_results[k][1]]
        IN  /\ Range(names) = TargetPrograms
            /\ Len(names) = Cardinality(TargetPrograms)
            /\ \A k \in DOMAIN target_applicant_results :
                  target_applicant_results[k][2]
                      <=> /\ names[k] \in DOMAIN final_admission_results
                          /\ normalize_snils(target_snils) \in AdmittedTo(names[k])
            /\ pc = "advised" =>
                  LET admitted_to == chance_analysis[1].programs_admitted_to
                      rejected_from == chance_analysis[1].programs_rejected_from
                  IN  /\ Range(admitted_to) \cap Range(rejected_from) = {}
                      /\ Range(admitted_to) \cup Range(rejected_from) = Range(names)
                      /\ Len(admitted_to) + Len(rejected_from) = Len(names)
                      /\ Range(admitted_to) =
                            {names[k] : k \in {n \in DOMAIN names :
                                                  target_applicant_results[n][2]}}

\* The budget run on a commercial table of X and a budget table of Y, the
\* target in both: X has no result list, Y admits the target; the chance
\* analysis lists Y as admitted and X as rejected.
C30_Witness ==
    /\ pc = "advised"
    /\ funding_filter = Some(<<Budget>>)
    /\ Len(all_program_records) = 2
    /\ all_program_records[1][1] = "X" /\ all_program_records[2][1] = "Y"
    /\ all_program_records[1][2][1].funding_source = Commercial
    /\ all_program_records[2][2][1].funding_source = Budget
    /\ "X" \notin DOMAIN final_admission_results
    /\ target_applicant_results = <<<<"X", FALSE>>, <<"Y", TRUE>>>>
    /\ chance_analysis[1].programs_admitted_to = <<"Y">>
    /\ chance_analysis[1].programs_rejected_from = <<"X">>

IdleNormalize ==
    /\ snils_in = <<<<>>, <<>>>>
    /\ norm_once = <<<<>>, <<>>>>
    /\ norm_twice = <<<<>>, <<>>>>
    /\ npc = "idle"

IdleDedup ==
    /\ raw_records = <<>>
    /\ dedup_result = <<>>
    /\ dpc = "idle"

IdleAnalyzer ==
    /\ all_program_records = <<>>
    /\ target_snils = <<>>
    /\ target_funding_types = {}
    /\ funding_filter = None
    /\ budget_exclusions = None
    /\ program_popularities = <<>>
    /\ final_admission_results = <<>>
    /\ target_applicant_found = FALSE
    /\ target_applicant_results = <<>>
    /\ chance_analysis = None
    /\ pc = "idle"

IdleFunding ==
    /\ funding_records = <<>>
    /\ funding_excluded_in = {}
    /\ funding_excluded = {}
    /\ funding_admitted = <<>>
    /\ fpc = "idle"

IdleCutoff ==
    /\ cutoff_report = <<>>
    /\ cpc = "idle"

IdleGroup ==
    /\ grouped_map = <<>>
    /\ gpc = "idle"

InitNormalize ==
    /\ snils_in \in InputSnils \X InputSnils
    /\ norm_once = <<<<>>, <<>>>>
    /\ norm_twice = <<<<>>, <<>>>>
    /\ npc = "start"
    /\ IdleDedup
    /\ IdleAnalyzer
    /\ IdleFunding
    /\ IdleCutoff
    /\ IdleGroup

InitFunding ==
    /\ funding_records \in FundingLists
    /\ funding_excluded_in \in FundingExclusions
    /\ funding_excluded = {}
    /\ funding_admitted = <<>>
    /\ fpc = "input"
    /\ IdleNormalize
    /\ IdleDedup
    /\ IdleAnalyzer
    /\ IdleCutoff
    /\ IdleGroup

SpecFunding == InitFunding /\ [][NextFunding]_vars

InitCutoff ==
    /\ all_program_records \in CutoffInputs
    /\ target_snils \in CutoffTargets
    /\ final_admission_results \in CutoffResults
    /\ target_funding_types = {}
    /\ funding_filter = None
    /\ budget_exclusions = None
    /\ program_popularities = <<>>
    /\ target_applicant_found = FALSE
    /\ target_applicant_results = <<>>
    /\ chance_analysis = None
    /\ pc = "idle"
    /\ cutoff_report = <<>>
    /\ cpc = "input"
    /\ IdleNormalize
    /\ IdleDedup
    /\ IdleFunding
    /\ IdleGroup

SpecCutoff == InitCutoff /\ [][NextCutoff]_vars

InitGroup ==
    /\ all_program_records \in GroupInputs
    /\ target_snils = TargetSnils
    /\ target_funding_types = {}
    /\ funding_filter = None
    /\ budget_exclusions = None
    /\ program_popularities = <<>>
    /\ final_admission_results = <<>>
    /\ target_applicant_found = FALSE
    /\ target_applicant_results = <<>>
    /\ chance_analysis = None
    /\ pc = "idle"
    /\ grouped_map = <<>>
    /\ gpc = "input"
    /\ IdleNormalize
    /\ IdleDedup
    /\ IdleFunding
    /\ IdleCutoff

SpecGroup == InitGroup /\ [][NextGroup]_vars

SpecNormalize == InitNormalize /\ [][NextNormalize]_vars

InitDedup ==
    /\ raw_records \in SeqsOf(RawRecord, 1, MaxRawRecords)
    /\ dedup_result = <<>>
    /\ dpc = "scraped"
    /\ IdleNormalize
    /\ IdleAnalyzer
    /\ IdleFunding
    /\ IdleCutoff
    /\ IdleGroup

SpecDedup == InitDedup /\ [][NextDedup]_vars

Init ==
    /\ all_program_records \in Inputs
    /\ target_snils = TargetSnils
    /\ target_funding_types = {}
    /\ funding_filter = None
    /\ budget_exclusions = None
    /\ program_popularities = <<>>
    /\ final_admission_results = <<>>
    /\ target_applicant_found = FALSE
    /\ target_applicant_results = <<>>
    /\ chance_analysis = None
    /\ pc = "input"
    /\ IdleNormalize
    /\ IdleDedup
    /\ IdleFunding
    /\ IdleCutoff
    /\ IdleGroup

Spec == Init /\ [][Next]_vars

InitThreeTables ==
    /\ all_program_records \in ThreeTableInputs
    /\ target_snils = TargetSnils
    /\ target_funding_types = {}
    /\ funding_filter = None
    /\ budget_exclusions = None
    /\ program_popularities = <<>>
    /\ final_admission_results = <<>>
    /\ target_applicant_found = FALSE
    /\ target_applicant_results = <<>>
    /\ chance_analysis = None
    /\ pc = "input"
    /\ IdleNormalize
    /\ IdleDedup
    /\ IdleFunding
    /\ IdleCutoff
    /\ IdleGroup

SpecThreeTables == InitThreeTables /\ [][Next]_vars

InitScenario ==
    /\ all_program_records \in ScenarioInputs
    /\ target_snils = ScenarioSnils[2]
    /\ target_funding_types = {}
    /\ funding_filter = None
    /\ budget_exclusions = None
    /\ program_popularities = <<>>
    /\ final_admission_results = <<>>
    /\ target_applicant_found = FALSE
    /\ target_applicant_results = <<>>
    /\ chance_analysis = None
    /\ pc = "input"
    /\ IdleNormalize
    /\ IdleDedup
    /\ IdleFunding
    /\ IdleCutoff
    /\ IdleGroup

SpecScenario == InitScenario /\ [][Next]_vars

====
